---- MODULE Spec2Model ----
(***************************************************************************)
(* Math Routing Agent: the tiered routing engine (agent_route), the        *)
(* knowledge-store adapter (kb_search_tool, persist_to_kb) and the cache   *)
(* (MathCacheManager), modelled from backend/agent_pipeline.py,            *)
(* backend/cache_manager.py, backend/guardrails.py and                     *)
(* backend/routes_feedback.py.                                             *)
(*                                                                         *)
(* Strings are sequences of one-character strings, so that lower(),        *)
(* split(), replace() and the substring tests are computed as the code     *)
(* computes them.                                                          *)
(***************************************************************************)
EXTENDS Integers, Sequences, FiniteSets, TLC

VARIABLES
    now,             \* the wall clock read by time.time(), in ticks
    cache,           \* MathCacheManager.cache: key -> entry
    access_count,    \* MathCacheManager.access_count: key -> count
    last_access,     \* MathCacheManager.last_access: key -> time
    max_cache_size,  \* MathCacheManager.max_cache_size
    ttl_seconds,     \* MathCacheManager.ttl_seconds, in ticks
    kb,              \* the points of the math_kb collection: id -> point
    coll_exists,     \* does the vector store list the math_kb collection
    workload,        \* the queries the clients send in this behaviour
    req,             \* the agent_route request in progress (its locals)
    hist,            \* history: what the finished and running requests did
    keyq             \* the pair of queries whose cache keys are compared

vars == << now, cache, access_count, last_access, max_cache_size, ttl_seconds,
           kb, coll_exists, workload, req, hist, keyq >>

cacheVars == << cache, access_count, last_access >>

\* ------------------------------------------------------------------------
\* Bounds of the model
\* ------------------------------------------------------------------------
MaxFrags == 3      \* fragments a compared query is built from
MaxTime == 3       \* ticks the clock advances
MaxReq == 2        \* agent_route requests per behaviour
MaxOps == 2        \* MathCacheManager calls per behaviour of the cache alone
EvictCap == 20     \* the larger max_cache_size the cache alone is run with
SmallCap == 2      \* the smaller max_cache_size
MaxKbOps == 2      \* vector-store calls per behaviour of the collection alone
MaxKbTime == 1     \* ticks the clock advances between those calls
MaxClock == 2      \* ticks the clock advances while requests are routed
TtlTicks == 1      \* the TTL the router's cache is built with, in ticks

\* ------------------------------------------------------------------------
\* Strings
\* ------------------------------------------------------------------------
Lo == <<"a","b","c","d","e","f","g","h","i","j","k","l","m",
        "n","o","p","q","r","s","t","u","v","w","x","y","z">>
Up == <<"A","B","C","D","E","F","G","H","I","J","K","L","M",
        "N","O","P","Q","R","S","T","U","V","W","X","Y","Z">>
Digits == {"0","1","2","3","4","5","6","7","8","9"}
Whitespace == {" ", "\t", "\n"}

UpSet == {Up[i] : i \in 1..26}
LoSet == {Lo[i] : i \in 1..26}
LowerOf == [c \in UpSet |-> Lo[CHOOSE i \in 1..26 : Up[i] = c]]
UpperOf == [c \in LoSet |-> Up[CHOOSE i \in 1..26 : Lo[i] = c]]

\* str.lower() on one character
LowerChar(c) == IF c \in UpSet THEN LowerOf[c] ELSE c

\* str.upper() on one character
UpperChar(c) == IF c \in LoSet THEN UpperOf[c] ELSE c

\* str.lower()
Lower(s) == [i \in 1..Len(s) |-> LowerChar(s[i])]

RECURSIVE SplitWords(_, _, _)
SplitWords(s, cur, acc) ==
    IF s = <<>>
    THEN IF cur = <<>> THEN acc ELSE Append(acc, cur)
    ELSE IF s[1] \in Whitespace
         THEN SplitWords(Tail(s), <<>>, IF cur = <<>> THEN acc ELSE Append(acc, cur))
         ELSE SplitWords(Tail(s), Append(cur, s[1]), acc)

\* str.split(): the words between runs of whitespace
Split(s) == SplitWords(s, <<>>, <<>>)

RECURSIVE Join(_)
\* ' '.join(words)
Join(ws) ==
    IF ws = <<>> THEN <<>>
    ELSE IF Len(ws) = 1 THEN ws[1]
    ELSE ws[1] \o <<" ">> \o Join(Tail(ws))

RECURSIVE Strip(_)
\* str.strip(): leading and trailing whitespace removed
Strip(s) ==
    IF s = <<>> THEN s
    ELSE IF s[1] \in Whitespace THEN Strip(Tail(s))
    ELSE IF s[Len(s)] \in Whitespace THEN Strip(SubSeq(s, 1, Len(s) - 1))
    ELSE s

\* does sub occur in s at position p
OccursAt(s, sub, p) ==
    /\ p >= 1
    /\ p + Len(sub) - 1 <= Len(s)
    /\ SubSeq(s, p, p + Len(sub) - 1) = sub

\* the Python test `sub in s`
Contains(s, sub) == \E p \in 1..Len(s) : OccursAt(s, sub, p)

RECURSIVE Replace(_, _, _)
\* str.replace(old, new): every non-overlapping occurrence, left to right
Replace(s, old, new) ==
    IF Len(s) < Len(old) THEN s
    ELSE IF s[1] = old[1] /\ SubSeq(s, 1, Len(old)) = old
         THEN new \o Replace(SubSeq(s, Len(old) + 1, Len(s)), old, new)
         ELSE <<s[1]>> \o Replace(Tail(s), old, new)

\* re.search(r"\d", s)
HasDigit(s) == \E i \in 1..Len(s) : s[i] \in Digits

\* ------------------------------------------------------------------------
\* The queries the router is run with
\* ------------------------------------------------------------------------
Q_WhatIs22 == <<"W","h","a","t"," ","i","s"," ","2"," ","+"," ","2","?">>
Q_Compute22 == <<"C","o","m","p","u","t","e"," ","2","+","2">>
Q_WhatIs33 == <<"W","h","a","t"," ","i","s"," ","3"," ","+"," ","3","?">>
Q_whatis22 == <<"w","h","a","t"," ","i","s"," "," ","2"," ","+"," ","2","?">>
Q_solvex == <<"s","o","l","v","e"," ","x">>
Q_expandy == <<"e","x","p","a","n","d"," ","y">>
Q_invent == <<"i","n","v","e","n","t"," ","a","n"," ","o","p">>
Q_solvey == <<"s","o","l","v","e"," ","y">>
Q_factorx == <<"f","a","c","t","o","r"," ","x">>
Q_solve == <<"s","o","l","v","e">>
Q_calculate == <<"c","a","l","c","u","l","a","t","e">>

\* the queries of the model
AllQueries ==
    { Q_WhatIs22, Q_Compute22, Q_WhatIs33, Q_whatis22, Q_solvex, Q_expandy,
      Q_invent, Q_solvey, Q_factorx, Q_solve, Q_calculate }

\* ------------------------------------------------------------------------
\* MathCacheManager._generate_cache_key
\* ------------------------------------------------------------------------
W_find == <<"f","i","n","d">>
W_calculate == <<"c","a","l","c","u","l","a","t","e">>
W_compute == <<"c","o","m","p","u","t","e">>
W_determine == <<"d","e","t","e","r","m","i","n","e">>
W_derivative == <<"d","e","r","i","v","a","t","i","v","e">>
W_integral == <<"i","n","t","e","g","r","a","l">>
W_solve == <<"s","o","l","v","e">>
W_differentiate == <<"d","i","f","f","e","r","e","n","t","i","a","t","e">>
W_integrate == <<"i","n","t","e","g","r","a","t","e">>

\* a synonyms dict that lacks the entry for "determine"
synonyms_without_determine ==
    << <<W_find, W_solve>>,
       <<W_calculate, W_solve>>,
       <<W_compute, W_solve>>,
       <<W_derivative, W_differentiate>>,
       <<W_integral, W_integrate>> >>

\* the synonyms dict, in its insertion order
synonyms ==
    << <<W_find, W_solve>>,
       <<W_calculate, W_solve>>,
       <<W_compute, W_solve>>,
       <<W_determine, W_solve>>,
       <<W_derivative, W_differentiate>>,
       <<W_integral, W_integrate>> >>

RECURSIVE ApplySynonyms(_, _)
\* for old, new in synonyms.items(): normalized = normalized.replace(old, new)
ApplySynonyms(s, i) ==
    IF i > Len(synonyms) THEN s
    ELSE ApplySynonyms(Replace(s, synonyms[i][1], synonyms[i][2]), i + 1)

\* hashlib.md5(...).hexdigest(): a digest, equal exactly for equal texts
\* (collisions of MD5 are outside the model)
Md5(s) == <<"md5", s>>

\* a fingerprint that is the same for every query
generate_cache_key_same(query) == Md5(<<>>)

generate_cache_key(query) ==
    Md5(ApplySynonyms(Join(Split(Strip(Lower(query)))), 1))

\* the keys of the routed queries, computed once
KeyTable == [q \in AllQueries |-> generate_cache_key(q)]

\* self._generate_cache_key(query) as get, get_route_info and set call it
CacheKey(query) ==
    IF query \in AllQueries THEN KeyTable[query] ELSE generate_cache_key(query)

\* ------------------------------------------------------------------------
\* MathCacheManager: get, get_route_info, set, eviction
\* ------------------------------------------------------------------------
None == [none |-> TRUE]          \* Python's None where a payload is expected

Max2(a, b) == IF a >= b THEN a ELSE b

\* dict.pop(k, None)
Pop(d, k) == [x \in DOMAIN d \ {k} |-> d[x]]

\* d[k] = v
Put(d, k, v) == [x \in DOMAIN d \cup {k} |-> IF x = k THEN v ELSE d[x]]

\* the three dicts of one MathCacheManager
CM == [cache |-> cache, access_count |-> access_count, last_access |-> last_access]

remove_cache_entry(cm, k) ==
    [cache |-> Pop(cm.cache, k),
     access_count |-> Pop(cm.access_count, k),
     last_access |-> Pop(cm.last_access, k)]

RECURSIVE RemoveAll(_, _)
RemoveAll(cm, E) ==
    IF E = {} THEN cm
    ELSE LET k == CHOOSE x \in E : TRUE
         IN RemoveAll(remove_cache_entry(cm, k), E \ {k})

\* an eviction that removes one entry whatever the size
entries_to_remove_one(n) == 1

\* entries_to_remove = max(1, len(sorted_keys) // 10)
entries_to_remove(n) == Max2(1, n \div 10)

RECURSIVE OldestSets(_, _)
\* sorted(last_access.keys(), key=last_access[k])[:k]: the sets of k keys that
\* can head the sorted list. Keys with equal last_access keep their dict
\* order, which the three maps do not record: every order of such ties is
\* allowed.
OldestSets(la, k) ==
    IF k = 0 \/ DOMAIN la = {} THEN {{}}
    ELSE LET mins == {m \in DOMAIN la : \A o \in DOMAIN la : la[m] <= la[o]}
         IN UNION { { {m} \cup E : E \in OldestSets(Pop(la, m), k - 1) } : m \in mins }

\* the sets _evict_lru_entries may remove
EvictSets(cm) ==
    OldestSets(cm.last_access,
               entries_to_remove(Cardinality(DOMAIN cm.last_access)))

\* set() up to the insert: evicts when the cache is full
SetEvictions(cm, cap) ==
    IF Cardinality(DOMAIN cm.cache) >= cap
    THEN { RemoveAll(cm, E) : E \in EvictSets(cm) }
    ELSE { cm }

\* an insert that leaves the entry of a key that is already cached
SetInsert_setdefault(cm, query, result, route, t) ==
    LET k == CacheKey(query)
    IN [cache |-> IF k \in DOMAIN cm.cache THEN cm.cache
                  ELSE Put(cm.cache, k,
                           [result |-> result, route |-> route,
                            timestamp |-> t, query |-> query]),
        access_count |-> Put(cm.access_count, k, 1),
        last_access |-> Put(cm.last_access, k, t)]

\* set()'s insert into the three dicts at time t
SetInsert(cm, query, result, route, t) ==
    LET k == CacheKey(query)
    IN [cache |-> Put(cm.cache, k,
                      [result |-> result, route |-> route,
                       timestamp |-> t, query |-> query]),
        access_count |-> Put(cm.access_count, k, 1),
        last_access |-> Put(cm.last_access, k, t)]

\* the states MathCacheManager.set can leave
CacheSet(cm, cap, query, result, route, t) ==
    { SetInsert(mid, query, result, route, t) : mid \in SetEvictions(cm, cap) }

\* a TTL test that already drops an entry exactly ttl old
CacheLive_strict(cm, ttl, k, t) ==
    /\ k \in DOMAIN cm.cache
    /\ t - cm.cache[k].timestamp < ttl

\* get(): is the entry served at time t
CacheLive(cm, ttl, k, t) ==
    /\ k \in DOMAIN cm.cache
    /\ ~ (t - cm.cache[k].timestamp > ttl)

\* get(): the value returned at time t
CacheGetResult(cm, ttl, query, t) ==
    LET k == CacheKey(query)
    IN IF CacheLive(cm, ttl, k, t) THEN cm.cache[k].result ELSE None

\* a get whose hit renews the entry's timestamp
CacheGetState_sliding(cm, ttl, query, t) ==
    LET k == CacheKey(query)
    IN IF k \notin DOMAIN cm.cache THEN cm
       ELSE IF t - cm.cache[k].timestamp > ttl THEN remove_cache_entry(cm, k)
       ELSE [cache |-> Put(cm.cache, k, [cm.cache[k] EXCEPT !.timestamp = t]),
             access_count |->
                 Put(cm.access_count, k,
                     (IF k \in DOMAIN cm.access_count
                      THEN cm.access_count[k] ELSE 0) + 1),
             last_access |-> Put(cm.last_access, k, t)]

\* get(): the dicts afterwards
CacheGetState(cm, ttl, query, t) ==
    LET k == CacheKey(query)
    IN IF k \notin DOMAIN cm.cache THEN cm
       ELSE IF t - cm.cache[k].timestamp > ttl THEN remove_cache_entry(cm, k)
       ELSE [cache |-> cm.cache,
             access_count |->
                 Put(cm.access_count, k,
                     (IF k \in DOMAIN cm.access_count
                      THEN cm.access_count[k] ELSE 0) + 1),
             last_access |-> Put(cm.last_access, k, t)]

\* a get_route_info that never finds the entry
get_route_info_none(cm, ttl, query, t) == "None"

\* get_route_info(): the tier label, or "None"
get_route_info(cm, ttl, query, t) ==
    LET k == CacheKey(query)
    IN IF CacheLive(cm, ttl, k, t) THEN cm.cache[k].route ELSE "None"

\* ------------------------------------------------------------------------
\* Cache keys of two queries that differ in case, whitespace or a synonym
\* ------------------------------------------------------------------------
Epoch == 10        \* the clock's first reading: time.time() is positive

Q_Find35 == <<"F","i","n","d"," ","3"," ","+"," ","5">>
Q_Compute35 == <<"C","o","m","p","u","t","e"," ","3"," ","+"," ","5">>
Q_Determine35 == <<"D","e","t","e","r","m","i","n","e"," ","3"," ","+"," ","5">>

\* the pieces the compared queries are concatenated from
Frags ==
    { <<"F","i","n","d">>, <<"f","i","n">>, <<"C","o","m","p","u","t","e">>,
      <<"D","e","t","e","r","m","i","n","e">>, <<"3"," ","+"," ","5">>, <<" ">>,
      W_calculate, W_derivative, W_integral }

IsLetter(c) == c \in LoSet \/ c \in UpSet

\* the same letter in the other case
ToggleCase(c) == IF c \in UpSet THEN LowerChar(c) ELSE UpperChar(c)

\* str.upper()
Upper(s) == [i \in 1..Len(s) |-> UpperChar(s[i])]

\* s with the characters p..p+n-1 replaced by r
Splice(s, p, n, r) == SubSeq(s, 1, p - 1) \o r \o SubSeq(s, p + n, Len(s))

KeyIdle == [pc |-> "off"]

\* _generate_cache_key applied to the query q1 and to its variant q2
KeyCompare(kind, p, w, q1, q2) ==
    [pc |-> "done", kind |-> kind, pos |-> p, w |-> w, q1 |-> q1, q2 |-> q2,
     k1 |-> generate_cache_key(q1), k2 |-> generate_cache_key(q2)]

KeyStart ==
    [pc |-> "build", n |-> 0, q1 |-> <<>>]

\* the query grows by one piece
KeyAppend ==
    /\ keyq.pc = "build"
    /\ keyq.n < MaxFrags
    /\ \E f \in Frags :
           keyq' = [keyq EXCEPT !.q1 = @ \o f, !.n = @ + 1]
    /\ UNCHANGED << now, cacheVars, max_cache_size, ttl_seconds, kb, coll_exists,
                   workload, req, hist >>

\* the second query: the first letter of a word in the other case, or the
\* whole query in upper case (p = 0)
KeyVaryCase ==
    /\ keyq.pc = "build"
    /\ \E p \in 0..Len(keyq.q1) :
           /\ IF p = 0 THEN keyq.q1 # <<>>
              ELSE /\ IsLetter(keyq.q1[p])
                   /\ IF p = 1 THEN TRUE ELSE ~ IsLetter(keyq.q1[p - 1])
           /\ keyq' = KeyCompare("case", p, 0, keyq.q1,
                               IF p = 0 THEN Upper(keyq.q1)
                               ELSE Splice(keyq.q1, p, 1,
                                           <<ToggleCase(keyq.q1[p])>>))
    /\ UNCHANGED << now, cacheVars, max_cache_size, ttl_seconds, kb, coll_exists,
                   workload, req, hist >>

\* the second query: a run of whitespace made longer by one character, at
\* either end of the query or beside a whitespace character
KeyVaryWs ==
    /\ keyq.pc = "build"
    /\ \E p \in 1..(Len(keyq.q1) + 1), c \in Whitespace :
           /\ IF p = 1 \/ p = Len(keyq.q1) + 1 THEN TRUE
              ELSE keyq.q1[p] \in Whitespace
           /\ keyq' = KeyCompare("ws", p, 0, keyq.q1,
                               Splice(keyq.q1, p, 0, <<c>>))
    /\ UNCHANGED << now, cacheVars, max_cache_size, ttl_seconds, kb, coll_exists,
                   workload, req, hist >>

\* the second query: one occurrence of a folded word replaced by the word
\* it is folded to
KeyVarySyn ==
    /\ keyq.pc = "build"
    /\ \E i \in 1..Len(synonyms), p \in 1..Len(keyq.q1) :
           /\ OccursAt(Lower(keyq.q1), synonyms[i][1], p)
           /\ keyq' = KeyCompare("syn", p, i, keyq.q1,
                               Splice(keyq.q1, p, Len(synonyms[i][1]),
                                      synonyms[i][2]))
    /\ UNCHANGED << now, cacheVars, max_cache_size, ttl_seconds, kb, coll_exists,
                   workload, req, hist >>

InitKey ==
    /\ now = Epoch
    /\ cache = <<>>
    /\ access_count = <<>>
    /\ last_access = <<>>
    /\ max_cache_size = 1000
    /\ ttl_seconds = 24 * 3600
    /\ kb = <<>>
    /\ coll_exists = TRUE
    /\ workload = {}
    /\ req = [pc |-> "idle"]
    /\ hist = [none |-> TRUE]
    /\ keyq = KeyStart

NextKey == KeyAppend \/ KeyVaryCase \/ KeyVaryWs \/ KeyVarySyn

SpecKey == InitKey /\ [][NextKey]_vars

\* the replaced occurrence shares a character with an occurrence of another
\* folded word
KeyOverlap ==
    LET s == Lower(keyq.q1)
        w == synonyms[keyq.w][1]
    IN \E j \in 1..Len(synonyms), p \in 1..Len(s) :
           /\ synonyms[j][1] # w
           /\ OccursAt(s, synonyms[j][1], p)
           /\ p <= keyq.pos + Len(w) - 1
           /\ keyq.pos <= p + Len(synonyms[j][1]) - 1

\* the keys of "Find 3 + 5", "Compute 3 + 5" and "Determine 3 + 5"
ExampleKeys ==
    << generate_cache_key(Q_Find35), generate_cache_key(Q_Compute35),
       generate_cache_key(Q_Determine35) >>

\* C9, as stated: any two queries that differ only in letter case, in runs
\* of whitespace or in a folded synonym get the same cache key
C9_AnyVariantSameKey ==
    keyq.pc = "done" => keyq.k1 = keyq.k2

\* C9: two queries that differ in letter case or in whitespace get the same
\* cache key, and so do two queries that differ in a folded synonym when
\* the replaced word shares no character with an occurrence of another
\* folded word; the keys of "Find 3 + 5", "Compute 3 + 5" and
\* "Determine 3 + 5" are equal
C9_SynonymFolding ==
    /\ (keyq.pc = "done"
          /\ (IF keyq.kind = "syn" THEN ~ KeyOverlap ELSE TRUE))
       => keyq.k1 = keyq.k2
    /\ ExampleKeys[1] = ExampleKeys[2]
    /\ ExampleKeys[2] = ExampleKeys[3]

\* a query and its variant with another synonym: same key
C9_Witness ==
    /\ keyq.pc = "done"
    /\ keyq.kind = "syn"
    /\ ~ KeyOverlap
    /\ keyq.q1 # keyq.q2
    /\ Lower(keyq.q1) # Lower(keyq.q2)
    /\ keyq.k1 = keyq.k2

\* ------------------------------------------------------------------------
\* The cache alone: MathCacheManager under set, get and the clock
\* ------------------------------------------------------------------------
Alpha == <<"a","b","c","d","e">>

\* the i-th two-letter query, i = 0, 1, ...
QAt(i) == << Alpha[((i \div 5) % 5) + 1], Alpha[(i % 5) + 1] >>

\* an answer payload as the tiers and the output guardrail leave it
Payload(answer, source) == [answer |-> answer, source |-> source]

\* a cache that n earlier set() calls filled, read in the given pattern
FilledCache(n, pattern) ==
    LET t(i) == CASE pattern = "asc" -> i + 1
                  [] pattern = "desc" -> n - i
                  [] OTHER -> (i \div 2) + 1
        idx(k) == CHOOSE i \in 0..(n - 1) : CacheKey(QAt(i)) = k
        keys == { CacheKey(QAt(i)) : i \in 0..(n - 1) }
    IN [cache |-> [k \in keys |->
                      [result |-> Payload("a1", "MCP Web Search"),
                       route |-> "Web", timestamp |-> t(idx(k)),
                       query |-> QAt(idx(k))]],
        access_count |-> [k \in keys |-> 1],
        last_access |-> [k \in keys |-> t(idx(k))]]

\* the queries the calls are made with: the oldest, the newest, one not yet
\* cached, and one that differs from a cached query in case only
CacheOpQueries(cap) ==
    { QAt(0), QAt(cap - 1), QAt(cap), Upper(QAt(0)) }

InitCache ==
    /\ max_cache_size \in {SmallCap, EvictCap}
    /\ \E n \in {max_cache_size - 1, max_cache_size},
          pattern \in {"asc", "desc", "pairs"} :
           /\ cache = FilledCache(n, pattern).cache
           /\ access_count = FilledCache(n, pattern).access_count
           /\ last_access = FilledCache(n, pattern).last_access
           /\ now = n + 1
    /\ ttl_seconds = max_cache_size + 1
    /\ kb = <<>>
    /\ coll_exists = TRUE
    /\ workload = {}
    /\ req = [pc |-> "idle"]
    /\ keyq = KeyIdle
    /\ hist = [ops |-> 0, last |-> "none", t0 |-> now]

\* MathCacheManager.set(query, result, route)
CSet ==
    /\ hist.ops < MaxOps
    /\ \E q \in CacheOpQueries(max_cache_size),
          mid \in SetEvictions(CM, max_cache_size) :
           LET r == IF hist.ops % 2 = 0 THEN Payload("a2", "OpenAI GPT")
                    ELSE Payload("a1", "MCP Web Search")
               route == IF r.source = "OpenAI GPT" THEN "AI" ELSE "KB"
               post == SetInsert(mid, q, r, route, now)
           IN /\ cache' = post.cache
              /\ access_count' = post.access_count
              /\ last_access' = post.last_access
              /\ hist' = [ops |-> hist.ops + 1, last |-> "set", t0 |-> hist.t0,
                          key |-> CacheKey(q),
                          query |-> q, result |-> r, route |-> route,
                          at |-> now,
                          pre_keys |-> DOMAIN cache,
                          pre_la |-> last_access,
                          mid_keys |-> DOMAIN mid.cache]
    /\ UNCHANGED << now, max_cache_size, ttl_seconds, kb, coll_exists, workload,
                   req, keyq >>

\* MathCacheManager.get(query)
CGet ==
    /\ hist.ops < MaxOps
    /\ \E q \in CacheOpQueries(max_cache_size) :
           LET post == CacheGetState(CM, ttl_seconds, q, now)
           IN /\ cache' = post.cache
              /\ access_count' = post.access_count
              /\ last_access' = post.last_access
              /\ hist' = [ops |-> hist.ops + 1, last |-> "get", t0 |-> hist.t0,
                          key |-> CacheKey(q),
                          pre |-> CM, at |-> now,
                          returned |-> CacheGetResult(CM, ttl_seconds, q, now)]
    /\ UNCHANGED << now, max_cache_size, ttl_seconds, kb, coll_exists, workload,
                   req, keyq >>

\* MathCacheManager.get_route_info(query)
CRoute ==
    /\ hist.ops < MaxOps
    /\ \E q \in CacheOpQueries(max_cache_size) :
           hist' = [ops |-> hist.ops + 1, last |-> "route", t0 |-> hist.t0,
                    key |-> CacheKey(q), pre |-> CM, at |-> now,
                    returned |-> get_route_info(CM, ttl_seconds, q, now)]
    /\ UNCHANGED << now, cacheVars, max_cache_size, ttl_seconds, kb, coll_exists,
                   workload, req, keyq >>

\* time passes between two calls
CTick ==
    /\ now < hist.t0 + MaxTime
    /\ now' = now + 1
    /\ UNCHANGED << cacheVars, max_cache_size, ttl_seconds, kb, coll_exists,
                   workload, req, hist, keyq >>

NextCache == CSet \/ CGet \/ CRoute \/ CTick

SpecCache == InitCache /\ [][NextCache]_vars

\* C8: the cache never holds more than max_cache_size entries; a set at or
\* over capacity removes exactly max(1, n div 10) of the n entries, none of
\* them accessed later than an entry it keeps, and a set below capacity
\* removes nothing
C8_EvictionInvariant ==
    /\ Cardinality(DOMAIN cache) <= max_cache_size
    /\ hist.last = "set" =>
         LET n == Cardinality(hist.pre_keys)
             removed == hist.pre_keys \ hist.mid_keys
         IN /\ hist.mid_keys \subseteq hist.pre_keys
            /\ DOMAIN cache = hist.mid_keys \cup {hist.key}
            /\ IF n >= max_cache_size
               THEN /\ Cardinality(removed) = (IF n \div 10 > 1 THEN n \div 10 ELSE 1)
                    /\ \A e \in removed, o \in hist.mid_keys :
                         hist.pre_la[e] <= hist.pre_la[o]
               ELSE removed = {}

\* a set on a full cache of 20 entries evicted two of them
C8_Witness ==
    /\ hist.last = "set"
    /\ Cardinality(hist.pre_keys) = EvictCap
    /\ Cardinality(hist.pre_keys \ hist.mid_keys) = EvictCap \div 10
    /\ Cardinality(DOMAIN cache) <= max_cache_size

\* C11: get returns None exactly when the key is absent or now - timestamp
\* exceeds the TTL (an entry exactly ttl old is served); a hit returns the
\* stored result, adds one to the key's access_count and sets its
\* last_access to now; an expired key is removed from the three dicts, and
\* an absent key leaves them as they were
C11_GetSemantics ==
    hist.last = "get" =>
        LET pre == hist.pre
            k == hist.key
            absent == k \notin DOMAIN pre.cache
            expired == IF absent THEN FALSE
                       ELSE hist.at - pre.cache[k].timestamp > ttl_seconds
        IN /\ (hist.returned = None) <=> (absent \/ expired)
           /\ absent => CM = pre
           /\ expired =>
                /\ k \notin DOMAIN cache
                /\ k \notin DOMAIN access_count
                /\ k \notin DOMAIN last_access
                /\ DOMAIN cache = DOMAIN pre.cache \ {k}
           /\ (~ absent /\ ~ expired) =>
                /\ hist.returned = pre.cache[k].result
                /\ cache = pre.cache
                /\ access_count = Put(pre.access_count, k, pre.access_count[k] + 1)
                /\ last_access = Put(pre.last_access, k, hist.at)

\* an entry exactly ttl old was served
C11_Witness ==
    /\ hist.last = "get"
    /\ hist.key \in DOMAIN hist.pre.cache
    /\ hist.at - hist.pre.cache[hist.key].timestamp = ttl_seconds
    /\ hist.returned = hist.pre.cache[hist.key].result
    /\ last_access[hist.key] = hist.at

\* an expired entry was asked for: None was returned and the entry is gone
C11_ExpiredGone ==
    /\ hist.last = "get"
    /\ hist.key \in DOMAIN hist.pre.cache
    /\ hist.at - hist.pre.cache[hist.key].timestamp > ttl_seconds
    /\ hist.returned = None
    /\ hist.key \notin DOMAIN cache

\* ------------------------------------------------------------------------
\* Guardrails: InputGuardrails.validate_input, OutputGuardrails.validate_output
\* ------------------------------------------------------------------------
allowed_math_keywords ==
    { <<"s","o","l","v","e">>, <<"i","n","t","e","g","r","a","t","e">>,
      <<"d","i","f","f","e","r","e","n","t","i","a","t","e">>, <<"l","i","m","i","t">>,
      <<"p","r","o","b","a","b","i","l","i","t","y">>, <<"e","q","u","a","t","i","o","n">>,
      <<"g","e","o","m","e","t","r","y">>, <<"a","l","g","e","b","r","a">>,
      <<"c","a","l","c","u","l","u","s">>, <<"d","e","r","i","v","a","t","i","v","e">>,
      <<"f","u","n","c","t","i","o","n">>, <<"e","x","p","r","e","s","s","i","o","n">>,
      <<"s","i","m","p","l","i","f","y">>, <<"e","x","p","a","n","d">>,
      <<"p","r","o","o","f">>, <<"t","h","e","o","r","e","m">>, <<"m","a","t","r","i","x">>,
      <<"v","e","c","t","o","r">>, <<"t","r","i","g","o","n","o","m","e","t","r","y">>,
      <<"l","o","g","a","r","i","t","h","m">>, <<"f","a","c","t","o","r","i","a","l">>,
      <<"p","e","r","m","u","t","a","t","i","o","n">>, <<"c","o","m","b","i","n","a","t","i","o","n">>,
      <<"s","t","e","p">>, <<"v","a","l","u","e">>, <<"f","i","n","d">>,
      <<"c","o","m","p","u","t","e">>, <<"e","x","p","l","a","i","n">>,
      <<"g","r","a","p","h">>, <<"p","l","o","t">>, <<"m","a","t","h">> }

forbidden_keywords ==
    { <<"v","i","o","l","e","n","c","e">>, <<"h","a","t","e">>, <<"i","l","l","e","g","a","l">>,
      <<"d","r","u","g","s">>, <<"w","e","a","p","o","n">>, <<"b","o","m","b">>,
      <<"k","i","l","l">>, <<"s","u","i","c","i","d","e">>, <<"s","e","l","f","-","h","a","r","m">>,
      <<"a","d","u","l","t">>, <<"s","e","x","u","a","l">>, <<"r","a","c","i","s","t">>,
      <<"d","i","s","c","r","i","m","i","n","a","t","o","r","y">>, <<"e","l","e","c","t","i","o","n">>,
      <<"p","o","l","i","t","i","c","s">>, <<"p","o","l","i","t","i","c","a","l">>,
      <<"v","o","t","e">>, <<"v","o","t","i","n","g">>, <<"c","a","n","d","i","d","a","t","e">>,
      <<"p","a","r","l","i","a","m","e","n","t">>, <<"c","o","n","g","r","e","s","s">>,
      <<"p","r","e","s","i","d","e","n","t">>, <<"m","i","n","i","s","t","e","r">>,
      <<"g","o","v","e","r","n","m","e","n","t">>, <<"d","e","m","o","c","r","a","c","y">>,
      <<"r","e","p","u","b","l","i","c","a","n">>, <<"d","e","m","o","c","r","a","t">>,
      <<"c","o","n","s","e","r","v","a","t","i","v","e">>, <<"l","i","b","e","r","a","l">>,
      <<"p","a","r","t","y">>, <<"c","a","m","p","a","i","g","n">>, <<"b","a","l","l","o","t">>,
      <<"p","o","l","l","i","n","g">>, <<"c","o","n","s","t","i","t","u","e","n","c","y">>,
      <<"s","e","n","a","t","o","r">>, <<"g","o","v","e","r","n","o","r">>,
      <<"c","e","l","e","b","r","i","t","y">>, <<"g","o","s","s","i","p">>,
      <<"e","n","t","e","r","t","a","i","n","m","e","n","t">>, <<"m","o","v","i","e">>,
      <<"a","c","t","o","r">>, <<"a","c","t","r","e","s","s">>, <<"s","i","n","g","e","r">>,
      <<"m","u","s","i","c","i","a","n">>, <<"s","p","o","r","t","s">>,
      <<"f","o","o","t","b","a","l","l">>, <<"b","a","s","k","e","t","b","a","l","l">>,
      <<"c","r","i","c","k","e","t">>, <<"t","e","n","n","i","s">>, <<"g","a","m","e">>,
      <<"m","a","t","c","h">>, <<"t","o","u","r","n","a","m","e","n","t">>,
      <<"s","t","o","c","k">>, <<"i","n","v","e","s","t","m","e","n","t">>,
      <<"t","r","a","d","i","n","g">>, <<"c","r","y","p","t","o","c","u","r","r","e","n","c","y">>,
      <<"b","i","t","c","o","i","n">>, <<"f","i","n","a","n","c","e">>,
      <<"m","o","n","e","y">>, <<"p","r","o","f","i","t">>, <<"b","u","s","i","n","e","s","s">>,
      <<"c","o","m","p","a","n","y">>, <<"c","o","r","p","o","r","a","t","i","o","n">>,
      <<"s","t","a","r","t","u","p">>, <<"e","n","t","r","e","p","r","e","n","e","u","r">>,
      <<"m","a","r","k","e","t","i","n","g">>, <<"s","a","l","e","s">> }

ai_first_keywords ==
    { <<"i","n","v","e","n","t">>, <<"c","r","e","a","t","e">>, <<"d","e","s","i","g","n">>,
      <<"f","l","u","r","b","l","e">>, <<"f","i","c","t","i","o","n","a","l">>,
      <<"i","m","a","g","i","n","e">>, <<"s","u","p","p","o","s","e">>,
      <<"p","r","e","t","e","n","d">>, <<"n","o","v","e","l">>, <<"n","e","w"," ","m","a","t","h","e","m","a","t","i","c","a","l"," ","o","p","e","r","a","t","i","o","n">> }


\* the characters of math_symbols that a keyboard types; the set holds the
\* space character too
math_symbols ==
    { "^", "+", "-", "*", "/", "=", "(", ")", "[", "]", "{", "}", " " }

Operators == { "+", "-", "*", "/", "^", "=" }

\* re.match(simple_expr_pattern, query)
SimpleExprChars ==
    Whitespace \cup Digits \cup LoSet \cup UpSet \cup Operators
        \cup { "(", ")", "[", "]", "{", "}", "." }

\* the quick accept of short, simple math expressions
QuickAccept(query) ==
    /\ query # <<>>
    /\ \A i \in 1..Len(query) : query[i] \in SimpleExprChars
    /\ \E i \in 1..Len(query) : query[i] \in Operators
    /\ Len(query) <= 200

\* the keyword checks that follow the classifier
KeywordCheck(query) ==
    LET query_lower == Lower(query)
    IN /\ Strip(query) # <<>>
       /\ Len(query) <= 1000
       /\ \A w \in forbidden_keywords : ~ Contains(query_lower, w)
       /\ \/ \E w \in allowed_math_keywords : Contains(query_lower, w)
          \/ \E i \in 1..Len(query) : query[i] \in math_symbols

\* validate_input: the verdicts it can give. The zero-shot classifier is a
\* black box: it can put a forbidden label on top (reject), or let the query
\* through to the keyword checks (allowed label, failure, or no classifier).
validate_input(query) ==
    IF QuickAccept(query) THEN {TRUE}
    ELSE {FALSE, KeywordCheck(query)}

\* dict.get(field, default)
Get(d, field, default) == IF field \in DOMAIN d THEN d[field] ELSE default

\* the answer texts a tier can give; "harmful" holds a safety keyword
SafeAnswers == {"a1", "a2"}
UnsafeAnswer == "harmful"

safe_fields ==
    { "answer", "steps", "summary", "question", "topic", "subtopic",
      "difficulty", "source", "score", "confidence", "explanation" }

\* "AI" in source or "generation"/"model" in source.lower(), on the source
\* labels the tiers use
IsAISource(source) == source = "OpenAI GPT"

\* OutputGuardrails._filter_response, with the disclaimer added afterwards
filter_response(response) ==
    LET kept == [f \in DOMAIN response \cap safe_fields |-> response[f]]
    IN IF IsAISource(Get(kept, "source", ""))
       THEN [f \in DOMAIN kept \cup {"disclaimer"} |->
                IF f = "disclaimer" THEN "verify" ELSE kept[f]]
       ELSE kept

\* the fields in which a tier returns free text
TextFields == { "answer", "steps", "summary" }

\* the safety check: a safety keyword anywhere in str(response)
ResponseSafe(response) ==
    \A f \in DOMAIN response \cap TextFields : response[f] # UnsafeAnswer

\* validate_output: (is_valid, filtered_response)
\* an output guardrail that lets every payload through
validate_output_pass(response) ==
    [is_valid |-> TRUE, filtered |-> filter_response(response)]

validate_output(response) ==
    IF ResponseSafe(response)
    THEN [is_valid |-> TRUE, filtered |-> filter_response(response)]
    ELSE [is_valid |-> FALSE, filtered |-> <<>>]

\* ------------------------------------------------------------------------
\* The embedding model and the vector store
\* ------------------------------------------------------------------------
\* model.encode(text): unit vectors in a plane, given by their angle in
\* steps of 15 degrees. Deterministic; texts that differ in case and
\* whitespace only get the same vector (the model is uncased).
Encode(text) ==
    CASE text = Q_WhatIs22 -> 0
      [] text = Q_whatis22 -> 0
      [] text = Q_Compute22 -> 1
      [] text = Q_WhatIs33 -> 2
      [] text = Q_expandy -> 10
      [] text = Q_factorx -> 11
      [] text = Q_solvey -> 13
      [] text = Q_solvex -> 14
      [] text = Q_solve -> 16
      [] text = Q_calculate -> 17
      [] text = Q_invent -> 19

\* 100 * cos(15 degrees * d), d = 0..12
CosPct == <<100, 97, 87, 71, 50, 26, 0, -26, -50, -71, -87, -97, -100>>

\* the cosine similarity of two vectors, in hundredths
Score(v1, v2) ==
    LET d == IF v1 >= v2 THEN v1 - v2 ELSE v2 - v1
    IN CosPct[(IF d > 12 THEN 24 - d ELSE d) + 1]

RECURSIVE TopHits(_, _, _, _)
\* client.search(query_vector, limit): the hits in descending score; points
\* of equal score come in any order
TopHits(pts, ids, vec, limit) ==
    IF limit = 0 \/ ids = {} THEN { <<>> }
    ELSE LET best == { m \in ids : \A o \in ids :
                          Score(vec, pts[m].vector) >= Score(vec, pts[o].vector) }
         IN UNION { { << [id |-> m, score |-> Score(vec, pts[m].vector),
                          payload |-> pts[m].payload] >> \o rest :
                      rest \in TopHits(pts, ids \ {m}, vec, limit - 1) } :
                    m \in best }

Search(pts, vec, limit) == TopHits(pts, DOMAIN pts, vec, limit)

\* a payload.get("question_norm") that finds nothing
NoneStr == <<"None">>

\* normalize_question: " ".join(q.strip().lower().split())
normalize_question(q) == Join(Split(Lower(Strip(q))))

\* the normalized routed queries, computed once
NormTable == [q \in AllQueries |-> normalize_question(q)]

\* Norm(query) as kb_search_tool and persist_to_kb call it
Norm(query) ==
    IF query \in AllQueries THEN NormTable[query] ELSE normalize_question(query)

\* a payload.get(field) that finds nothing, for text fields
NoneVal == "None"

\* a missing id: getattr(cand, "id", None) or cand.payload.get("id")
NoId == -1

\* the acceptance thresholds and search limits, scores in hundredths
ValidatedThreshold == 45
RegularThreshold == 65
DedupThreshold == 95
ExactLimit == 10
SemanticLimit == 3
DedupLimit == 5

\* scripts/reindex_from_json.py: a dataset record with its normalized question
SeedDataset(q, answer) ==
    [ vector |-> Encode(q),
      payload |-> [ question |-> q, question_norm |-> normalize_question(q),
                    answer |-> answer, steps |-> NoneVal, source |-> "dataset",
                    route_origin |-> "dataset", validated_by_user |-> FALSE ] ]

\* embed_kb.py: the dataset item itself is the payload, ids count from 0
SeedEmbed(q, answer) ==
    [ vector |-> Encode(q),
      payload |-> [ question |-> q, answer |-> answer ] ]

KbError == [ error |-> "KB search failed", source |-> "Knowledge Base Error" ]

\* the three records kb_search_tool builds from a hit (topic, subtopic and
\* difficulty are copied like question and answer and left out here)
ExactResult(hit) ==
    [ question |-> Get(hit.payload, "question", NoneStr),
      answer |-> Get(hit.payload, "answer", NoneVal),
      steps |-> Get(hit.payload, "steps", NoneVal),
      source |-> "Knowledge Base (Exact)",
      original_source |-> Get(hit.payload, "source", NoneVal),
      validated_by_user |-> Get(hit.payload, "validated_by_user", FALSE),
      score |-> hit.score ]

ValidatedResult(hit) ==
    [ question |-> Get(hit.payload, "question", NoneStr),
      answer |-> Get(hit.payload, "answer", NoneVal),
      steps |-> Get(hit.payload, "steps", NoneVal),
      source |-> "Knowledge Base (User Validated)",
      original_source |-> Get(hit.payload, "source", NoneVal),
      validated_by_user |-> TRUE,
      score |-> hit.score ]

RegularResult(hit) ==
    [ question |-> Get(hit.payload, "question", NoneStr),
      answer |-> Get(hit.payload, "answer", NoneVal),
      steps |-> Get(hit.payload, "steps", NoneVal),
      source |-> "Knowledge Base",
      original_source |-> Get(hit.payload, "source", NoneVal),
      score |-> hit.score ]

\* a candidate test that never grants the lower threshold
IsLenient_never(payload) == FALSE

\* the test that gives a candidate the lower threshold
IsLenient(payload) ==
    IF Get(payload, "validated_by_user", FALSE) THEN TRUE
    ELSE Get(payload, "route_origin", NoneVal) \in {"web", "ai"}

\* a candidate loop that looks at the top hit only
SemanticPick_top(hits) ==
    IF hits = <<>> THEN None
    ELSE IF IsLenient(hits[1].payload)
         THEN IF hits[1].score >= ValidatedThreshold
              THEN ValidatedResult(hits[1]) ELSE None
         ELSE IF hits[1].score >= RegularThreshold
              THEN RegularResult(hits[1]) ELSE None

RECURSIVE SemanticPick(_)
\* the loop over the top-3 candidates: the first one that meets its threshold
SemanticPick(hits) ==
    IF hits = <<>> THEN None
    ELSE IF IsLenient(hits[1].payload)
         THEN IF hits[1].score >= ValidatedThreshold
              THEN ValidatedResult(hits[1])
              ELSE SemanticPick(Tail(hits))
         ELSE IF hits[1].score >= RegularThreshold
              THEN RegularResult(hits[1])
              ELSE SemanticPick(Tail(hits))

\* an exact-match loop that finds nothing
ExactHits_none(hits, normalized_q) == {}

\* the hits whose stored question_norm equals the normalized query
ExactHits(hits, normalized_q) ==
    { i \in 1..Len(hits) :
        Get(hits[i].payload, "question_norm", NoneStr) = normalized_q }

MinOf(S) == CHOOSE m \in S : \A o \in S : m <= o

\* a kb_search_tool that forgets the digit rule
contains_number_never(query) == FALSE

\* bool(re.search(r"\d", query))
contains_number(query) == HasDigit(query)

\* the part of kb_search_tool after the exact-match loop
SemanticFallback(pts, query) ==
    IF contains_number(query) THEN { None }
    ELSE { SemanticPick(r3) : r3 \in Search(pts, Encode(query), SemanticLimit) }

\* kb_search_tool: the results it can return. raises says that the embedding
\* or a vector-store call raised; a missing collection makes the search raise.
kb_search_tool(pts, coll, query, raises) ==
    IF raises \/ ~ coll THEN { KbError }
    ELSE UNION { IF ExactHits(r10, Norm(query)) # {}
                 THEN { ExactResult(r10[MinOf(ExactHits(r10, Norm(query)))]) }
                 ELSE SemanticFallback(pts, query) :
                 r10 \in Search(pts, Encode(query), ExactLimit) }

\* getattr(cand, "id", None) or cand.payload.get("id")
IdOf(cand) == IF cand.id # 0 THEN cand.id ELSE Get(cand.payload, "id", NoId)

\* the hits that are near-duplicate vectors
NearHits(hits) == { i \in 1..Len(hits) : hits[i].score >= DedupThreshold }

\* existing_id after the two dedup loops of persist_to_kb
ExistingId(hits, question_norm) ==
    LET exact == IF ExactHits(hits, question_norm) # {}
                 THEN IdOf(hits[MinOf(ExactHits(hits, question_norm))])
                 ELSE NoId
    IN IF exact # NoId THEN exact
       ELSE IF NearHits(hits) # {} THEN IdOf(hits[MinOf(NearHits(hits))])
       ELSE NoId

\* a dedup that reuses the id of the best hit, however far it is
PointId_best(hits, question_norm, fresh) ==
    IF hits # << >> /\ IdOf(hits[1]) \notin {NoId, 0} THEN IdOf(hits[1]) ELSE fresh

\* `if existing_id:` -- a missing id and the id 0 both keep the fresh id
PointId(hits, question_norm, fresh) ==
    IF ExistingId(hits, question_norm) \notin {NoId, 0}
    THEN ExistingId(hits, question_norm)
    ELSE fresh

\* the payload persist_to_kb stores (topic, subtopic, difficulty, created_at
\* and additional_sources are stored too and never read by the router)
PersistPayload(route_origin, query, answer, steps) ==
    [ question |-> query, question_norm |-> Norm(query),
      answer |-> answer, steps |-> steps, source |-> route_origin,
      route_origin |-> route_origin, validated_by_user |-> FALSE ]

\* what can go wrong in one persist_to_kb call: nothing, the embedding
\* raises, the dedup search raises, the upsert raises an error other than
\* "not found", the upsert raises "not found", get_collections raises,
\* create_collection raises, the retried upsert raises
PersistFaults ==
    { "none", "encode", "search", "upsert_other", "upsert_notfound", "list",
      "create", "retry" }

\* the ids the candidate point can end up with
PersistIds(pts, coll, query, t, fault) ==
    IF fault = "search" \/ ~ coll THEN { t }
    ELSE { PointId(hits, Norm(query), t) :
             hits \in Search(pts, Encode(query), DedupLimit) }

\* a first upsert that always succeeds
FirstUpsert_ok(coll, fault) == "ok"

\* the error of the first upsert
FirstUpsert(coll, fault) ==
    IF ~ coll THEN "notfound"
    ELSE IF fault = "upsert_other" THEN "other"
    ELSE IF fault \in {"upsert_notfound", "list", "create", "retry"} THEN "notfound"
    ELSE "ok"

\* persist_to_kb: the (returned flag, points, collection) it can end with,
\* and the client.upsert and client.create_collection calls it made
persist_to_kb(pts, coll, route_origin, query, answer, steps, t, fault) ==
    IF fault = "encode"
    THEN { [ok |-> FALSE, kb |-> pts, coll |-> coll, upserts |-> 0, creates |-> 0] }
    ELSE
    { LET point == [ vector |-> Encode(query),
                     payload |-> PersistPayload(route_origin, query, answer, steps) ]
          created == IF coll THEN 0 ELSE 1
      IN CASE FirstUpsert(coll, fault) = "ok" ->
                [ok |-> TRUE, kb |-> Put(pts, id, point), coll |-> coll,
                 upserts |-> 1, creates |-> 0]
           [] FirstUpsert(coll, fault) = "other" ->
                [ok |-> FALSE, kb |-> pts, coll |-> coll,
                 upserts |-> 1, creates |-> 0]
           [] OTHER ->
                IF fault = "list"
                THEN [ok |-> FALSE, kb |-> pts, coll |-> coll,
                      upserts |-> 1, creates |-> 0]
                ELSE IF ~ coll /\ fault = "create"
                THEN [ok |-> FALSE, kb |-> pts, coll |-> coll,
                      upserts |-> 1, creates |-> 1]
                ELSE IF fault = "retry"
                THEN [ok |-> FALSE, kb |-> pts, coll |-> TRUE,
                      upserts |-> 2, creates |-> created]
                ELSE [ok |-> TRUE, kb |-> Put(pts, id, point), coll |-> TRUE,
                      upserts |-> 2, creates |-> created] :
      id \in PersistIds(pts, coll, query, t, fault) }

\* f"Validated {source_route.replace('_', ' ').title()}"
ValidatedSource(source_route) ==
    IF source_route = "web" THEN "Validated Web" ELSE "Validated Ai"

\* store_validated_response_in_kb: a new point under a microsecond id
store_validated_response_in_kb(pts, coll, query, response, source_route, t, raises) ==
    IF raises \/ ~ coll THEN [ok |-> FALSE, kb |-> pts]
    ELSE [ ok |-> TRUE,
           kb |-> Put(pts, t * 1000,
                      [ vector |-> Encode(query),
                        payload |-> [ question |-> query, answer |-> response,
                                      source |-> ValidatedSource(source_route),
                                      validated_by_user |-> TRUE,
                                      route_origin |-> source_route ] ]) ]

\* ------------------------------------------------------------------------
\* SpecKB: sequential calls of persist_to_kb, kb_search_tool and
\* store_validated_response_in_kb on one collection
\* ------------------------------------------------------------------------
KBQueries == { Q_WhatIs22, Q_whatis22, Q_Compute22, Q_WhatIs33 }

\* the (route_origin, answer) pairs the calls store
KbCalls == { <<"web", "a1">>, <<"ai", "a2">> }

\* the collections the calls start from: none, an empty one, one filled by
\* embed_kb.py, one filled by scripts/reindex_from_json.py
InitialKBs ==
    { <<>>,
      [i \in {0} |-> SeedEmbed(Q_WhatIs33, "a1")],
      [i \in {1} |-> SeedDataset(Q_WhatIs33, "a1")] }

otherKB == << cacheVars, max_cache_size, ttl_seconds, workload, req, keyq >>

InitKB ==
    /\ now = Epoch
    /\ cache = <<>>
    /\ access_count = <<>>
    /\ last_access = <<>>
    /\ max_cache_size = 1000
    /\ ttl_seconds = 24 * 3600
    /\ kb \in InitialKBs
    /\ coll_exists \in {TRUE} \cup {b \in {FALSE} : kb = <<>>}
    /\ workload = KBQueries
    /\ req = [pc |-> "idle"]
    /\ keyq = KeyIdle
    /\ hist = [ops |-> 0, last |-> "none", t0 |-> now]

\* persist_to_kb(route_origin, query, answer, steps)
KPersist ==
    /\ hist.ops < MaxKbOps
    /\ \E q \in workload, call \in KbCalls, fault \in PersistFaults :
         \E out \in persist_to_kb(kb, coll_exists, call[1], q, call[2], NoneVal,
                                  now, fault) :
           /\ kb' = out.kb
           /\ coll_exists' = out.coll
           /\ hist' = [ ops |-> hist.ops + 1, last |-> "persist", t0 |-> hist.t0,
                        query |-> q, answer |-> call[2], ok |-> out.ok,
                        pre |-> kb, pre_coll |-> coll_exists, at |-> now,
                        upserts |-> out.upserts, creates |-> out.creates ]
    /\ UNCHANGED << now, otherKB >>

\* kb_search_tool(query)
KSearch ==
    /\ hist.ops < MaxKbOps
    /\ \E q \in workload, raises \in BOOLEAN :
         \E r \in kb_search_tool(kb, coll_exists, q, raises) :
           hist' = [ ops |-> hist.ops + 1, last |-> "search", t0 |-> hist.t0,
                     query |-> q, result |-> r,
                     failed |-> (raises \/ ~ coll_exists) ]
    /\ UNCHANGED << now, kb, coll_exists, otherKB >>

\* `if cached_result:` and `if kb_result:` -- None and {} are falsy
Truthy(d) == d # None /\ DOMAIN d # {}

\* web_search_tool: an error payload (provider error or exception), or the
\* provider's answer
WebOutcomes ==
    { [ error |-> "MCP search failed", source |-> "MCP Web Search" ] }
    \cup { [ answer |-> a, summary |-> "summary", source |-> "MCP Web Search" ] :
             a \in {"a1", UnsafeAnswer} }

\* openai_solve_tool: a failure message, or the generated steps
AIOutcomes ==
    { [ message |-> "AI generation failed" ] }
    \cup { [ answer |-> "Generated by AI", steps |-> st, source |-> "OpenAI GPT",
             model |-> "gpt-4" ] : st \in {"a2", UnsafeAnswer} }

\* feedback_system.require_human_feedback(query)
require_human_feedback(query) ==
    [ message |-> "requires human expertise",
      explanation |-> "no automated answer", action_required |-> "feedback",
      feedback_form |-> [ query |-> query ] ]

\* how a call of web_search_tool or openai_solve_tool went: the tool raised
\* (the caller's except gives None), it caught a failure of the provider
\* and returned its error or message payload, or it answered
ToolOutcome(result) ==
    IF result = None THEN "raised"
    ELSE IF "error" \in DOMAIN result \/ "message" \in DOMAIN result THEN "failed"
    ELSE "answered"

\* master_router.ask_math: the (answer, source) it can return and the
\* collection it leaves. raises: the KB search fails; ai_result is None
\* when openai_solve_tool itself raised. The flag of
\* persist_to_kb is ignored. The answer is a dict from the KB and the human
\* tier and a string from web and AI, carried here as [text |-> string].
ask_math(pts, coll, query, raises, t) ==
    LET returned(answer, source, web, ai) ==
            { [answer |-> answer, source |-> source, kb |-> pts, coll |-> coll,
               web |-> web, ai |-> ai, stored |-> FALSE] }
        persisted(origin, answer, steps, source, web, ai) ==
            { [answer |-> [text |-> answer], source |-> source,
               kb |-> out.kb, coll |-> out.coll,
               web |-> web, ai |-> ai, stored |-> out.ok] :
                out \in UNION { persist_to_kb(pts, coll, origin, query, answer,
                                              steps, t, fault) :
                                  fault \in PersistFaults } }
        from_ai ==
            UNION { IF Truthy(ai_result) /\ "error" \notin DOMAIN ai_result
                    THEN persisted("ai",
                                   IF "answer" \in DOMAIN ai_result
                                   THEN ai_result.answer ELSE "str(ai_result)",
                                   Get(ai_result, "steps", NoneVal), "AI",
                                   "failed", ToolOutcome(ai_result))
                    ELSE returned(require_human_feedback(query), "HUMAN",
                                  "failed", ToolOutcome(ai_result)) :
                    ai_result \in AIOutcomes \cup { None } }
        from_web ==
            UNION { IF Truthy(web_result) /\ "error" \notin DOMAIN web_result
                    THEN persisted("web", web_result.answer, NoneVal, "WEB",
                                   ToolOutcome(web_result), "not called")
                    ELSE from_ai :
                    web_result \in WebOutcomes }
    IN UNION { IF Truthy(kb_result)
               THEN returned(kb_result, "KB", "not called", "not called")
               ELSE from_web :
               kb_result \in kb_search_tool(pts, coll, query, raises) }

\* POST /ask
KAsk ==
    /\ hist.ops < MaxKbOps
    /\ \E q \in workload, raises \in BOOLEAN :
         \E out \in ask_math(kb, coll_exists, q, raises, now) :
           /\ kb' = out.kb
           /\ coll_exists' = out.coll
           /\ hist' = [ ops |-> hist.ops + 1, last |-> "ask", t0 |-> hist.t0,
                        query |-> q, kb_failed |-> (raises \/ ~ coll_exists),
                        source |-> out.source, answer |-> out.answer,
                        web |-> out.web, ai |-> out.ai, stored |-> out.stored ]
    /\ UNCHANGED << now, otherKB >>

\* the clock moves on between two calls
KTick ==
    /\ now < hist.t0 + MaxKbTime
    /\ now' = now + 1
    /\ UNCHANGED << kb, coll_exists, hist, otherKB >>

NextKB == KPersist \/ KSearch \/ KTick

SpecKB == InitKB /\ [][NextKB]_vars

\* SpecAsk: the callers of kb_search_tool outside agent_route -- direct
\* searches and requests to /ask -- on one collection
NextAsk == KSearch \/ KAsk \/ KTick

SpecAsk == InitKB /\ [][NextAsk]_vars

\* the stored question_norm of a point, NoneStr when it has none
NormOf(point) == Get(point.payload, "question_norm", NoneStr)

\* C5: for a query with a digit, kb_search_tool returns a record only if a
\* stored record has the normalized query as its question_norm, and the
\* returned record is that one: never the record of another question
C5_NumericExactness ==
    (hist.last = "search" /\ HasDigit(hist.query) /\ hist.result # None
        /\ "error" \notin DOMAIN hist.result)
    => \E id \in DOMAIN kb :
         /\ NormOf(kb[id]) = Norm(hist.query)
         /\ hist.result.question = kb[id].payload.question
         /\ hist.result.answer = kb[id].payload.answer
         /\ hist.result.source = "Knowledge Base (Exact)"

\* a digit query got a record while a record of another numeric question,
\* scoring above every threshold, is stored too
C5_Witness ==
    /\ hist.last = "search" /\ hist.query = Q_WhatIs22
    /\ hist.result # None /\ "error" \notin DOMAIN hist.result
    /\ \E id \in DOMAIN kb :
         /\ NormOf(kb[id]) = Norm(Q_WhatIs33)
         /\ Score(Encode(Q_WhatIs22), kb[id].vector) >= RegularThreshold

\* C7, as stated: after any series of persist_to_kb calls the collection
\* holds at most one record per question_norm; a successful call leaves a
\* record with the question's norm and the latest answer; and a question
\* whose vector is within 0.95 of a stored record reuses that record's id
C7_DedupOnUpsert ==
    /\ \A i, j \in DOMAIN kb :
         (i # j /\ NormOf(kb[i]) # NoneStr) => NormOf(kb[i]) # NormOf(kb[j])
    /\ (hist.last = "persist" /\ hist.ok)
       => /\ \E i \in DOMAIN kb :
               /\ NormOf(kb[i]) = Norm(hist.query)
               /\ kb[i].payload.answer = hist.answer
          /\ (\E i \in DOMAIN hist.pre :
                Score(Encode(hist.query), hist.pre[i].vector) >= DedupThreshold)
             => DOMAIN kb = DOMAIN hist.pre

\* C19: a persist_to_kb call always returns a flag. True is returned only
\* after an upsert succeeded: the collection then exists and holds a point
\* with the question and the answer. False leaves every point as it was. No
\* call removes a point or the collection; create_collection is called at
\* most once and only when the collection was missing; upsert is called at
\* most twice, the second time only after the first found no collection
C19_PersistOutcome ==
    (hist.last = "persist") =>
      /\ hist.ok \in BOOLEAN
      /\ hist.ok =>
            /\ coll_exists
            /\ hist.upserts \in {1, 2}
            /\ \E i \in DOMAIN kb :
                  /\ kb[i].payload.question = hist.query
                  /\ kb[i].payload.answer = hist.answer
      /\ (~ hist.ok) => (kb = hist.pre)
      /\ DOMAIN hist.pre \subseteq DOMAIN kb
      /\ hist.pre_coll => (coll_exists /\ hist.creates = 0)
      /\ hist.creates \in {0, 1}
      /\ hist.upserts \in {0, 1, 2}
      /\ (coll_exists # hist.pre_coll) => (hist.creates = 1)
      /\ (hist.ok /\ ~ hist.pre_coll) => (hist.upserts = 2 /\ hist.creates = 1)
      /\ (hist.upserts = 2) => coll_exists

\* the collection was missing: it was created, the upsert was retried and
\* the call returned true
C19_Witness ==
    /\ hist.last = "persist"
    /\ ~ hist.pre_coll
    /\ hist.ok
    /\ hist.upserts = 2
    /\ hist.creates = 1
    /\ coll_exists
    /\ kb # << >>

\* the retried upsert failed too: false, with the collection created
C19_RetryFailed ==
    /\ hist.last = "persist"
    /\ ~ hist.pre_coll
    /\ ~ hist.ok
    /\ hist.upserts = 2
    /\ coll_exists

\* C20: a KB search that fails gives its caller "no match" (None), and a
\* request to /ask whose KB search failed is not answered from the KB
C20_KbFailureIsNoMatch ==
    /\ (hist.last = "search" /\ hist.failed) => (hist.result = None)
    /\ (hist.last = "ask" /\ hist.kb_failed) => (hist.source # "KB")

\* what the code does instead: the failed search returns the error payload,
\* and /ask returns that payload as its KB answer
C20_FailureIsErrorPayload ==
    /\ (hist.last = "search" /\ hist.failed) => (hist.result = KbError)
    /\ (hist.last = "ask" /\ hist.kb_failed) =>
          (hist.source = "KB" /\ hist.answer = KbError)

\* ------------------------------------------------------------------------
\* Spec: agent_route, one request after another, with user feedback
\* ------------------------------------------------------------------------
Stages == << "cache", "guardrail", "kb", "web", "ai", "human" >>

StageIndex(stage) == CHOOSE i \in 1..Len(Stages) : Stages[i] = stage

\* performance_analytics.log_request_start: the request's trace entry, with
\* no route yet, and the count of log_request_end calls made for it
log_request_start ==
    [ ends |-> 0, route |-> NoneVal, success |-> NoneVal ]

\* performance_analytics.log_request_end(tracking_id, route, success)
log_request_end(entry, route, success) ==
    [ ends |-> entry.ends + 1, route |-> route,
      success |-> IF success THEN "True" ELSE "False" ]

\* a request that has not looked anything up yet
\* the count of calls a request has made, after one more call of each of
\* the named services
Called(calls, names) ==
    [c \in DOMAIN calls |-> IF c \in names THEN calls[c] + 1 ELSE calls[c]]

NewReq(q) ==
    [ pc |-> "cache", query |-> q, t0 |-> now, trace |-> <<>>, hit |-> FALSE,
      entry_ts |-> -1, entry_route |-> "none", entry_query |-> <<>>,
      kb_result |-> None, persisted |-> "none", fb |-> FALSE,
      fb_type |-> << >>, fb_stored |-> "none", fb_pre |-> << >>,
      valid |-> "none", log |-> log_request_start, status |-> 0,
      calls |-> [web |-> 0, ai |-> 0, persist |-> 0, set |-> 0],
      checks |-> << >>,
      response |-> None ]

\* any(keyword in query_lower for keyword in ai_first_keywords)
skip_web_search(query) ==
    \E keyword \in ai_first_keywords : Contains(Lower(query), keyword)

\* the guardrail verdicts and the keyword test of the routed queries,
\* computed once
VerdictTable == [q \in AllQueries |-> validate_input(q)]
SkipWebTable == [q \in AllQueries |-> skip_web_search(q)]

\* a router that always skips the web search
AfterKB_ai(query) == "ai"

\* a router that never skips the web search
AfterKB_web(query) == "web"

\* the stage that follows a KB stage without an accepted answer
AfterKB(query) == IF SkipWebTable[query] THEN "ai" ELSE "web"

\* a cache label that is KB whether or not the answer was persisted
cache_route_kb(persisted, tier) == "KB"

\* cache_route = "KB" if persisted else "Web" / "AI"
cache_route(persisted, tier) == IF persisted THEN "KB" ELSE tier

\* a router that holds every KB result to the regular threshold
RouteThreshold_regular(kb_result) == RegularThreshold

\* threshold = 0.45 if is_validated else 0.65
RouteThreshold(kb_result) ==
    IF Get(kb_result, "validated_by_user", FALSE)
    THEN ValidatedThreshold ELSE RegularThreshold

\* guardrails.process_response is reached for a KB result
KbChecked(kb_result) ==
    /\ Truthy(kb_result)
    /\ Get(kb_result, "score", 0) >= RouteThreshold(kb_result)

\* guardrails.process_response is reached for a web or AI result
TierChecked(result) ==
    /\ Truthy(result)
    /\ "answer" \in DOMAIN result
    /\ "error" \notin DOMAIN result

\* the KB branch answers: truthy result, score at its threshold, valid output
KbAnswers(kb_result) ==
    /\ Truthy(kb_result)
    /\ Get(kb_result, "score", 0) >= RouteThreshold(kb_result)
    /\ validate_output(kb_result).is_valid

\* the JSON body of a KB answer
KbResponse(kb_result) ==
    LET body == [ route |-> "KB", result |-> validate_output(kb_result).filtered,
                  confidence |-> IF kb_result.score >= RegularThreshold
                                 THEN "high" ELSE "medium" ]
    IN IF Get(kb_result, "validated_by_user", FALSE)
       THEN [f \in DOMAIN body \cup {"validation_info"} |->
                IF f = "validation_info" THEN "validated" ELSE body[f]]
       ELSE body

\* a tier test that takes any payload for an answer, an error payload too
TierAnswers_truthy(result) == Truthy(result)

\* `result and "answer" in result and "error" not in result`, then the
\* output guardrail
TierAnswers(result) ==
    /\ Truthy(result)
    /\ "answer" \in DOMAIN result
    /\ "error" \notin DOMAIN result
    /\ validate_output(result).is_valid

Init ==
    /\ now = Epoch
    /\ cache = <<>>
    /\ access_count = <<>>
    /\ last_access = <<>>
    /\ max_cache_size = 1000
    /\ ttl_seconds = TtlTicks
    /\ \E scenario \in 1..6 :
         CASE scenario = 1 ->
                /\ workload = { Q_WhatIs22, Q_Compute22 }
                /\ kb = [i \in {1} |-> SeedDataset(Q_WhatIs33, "a1")]
                /\ coll_exists = TRUE
           [] scenario = 2 ->
                /\ workload = { Q_expandy, Q_solvex }
                /\ kb = <<>>
                /\ coll_exists = TRUE
           [] scenario = 3 ->
                /\ workload = { Q_expandy, Q_solvex }
                /\ kb = [i \in {1} |-> SeedDataset(Q_expandy, "a1")]
                /\ coll_exists = TRUE
           [] scenario = 4 ->
                /\ workload = { Q_invent }
                /\ kb = <<>>
                /\ coll_exists \in BOOLEAN
           [] scenario = 5 ->
                /\ workload = { Q_expandy }
                /\ kb = [i \in {1} |-> SeedDataset(Q_expandy, UnsafeAnswer)]
                /\ coll_exists = TRUE
           [] scenario = 6 ->
                /\ workload = { Q_solve, Q_calculate }
                /\ kb = [i \in {1} |-> SeedDataset(Q_solve, "a1")]
                /\ coll_exists = TRUE
    /\ req = [pc |-> "idle"]
    /\ keyq = KeyIdle
    /\ hist = [nreq |-> 0, asked |-> {}, prev |-> [pc |-> "idle"]]

\* what the history keeps of a request that has returned
Summary(r) ==
    IF r.pc = "idle" THEN r
    ELSE [ pc |-> "done", query |-> r.query, hit |-> r.hit,
           persisted |-> r.persisted, entry_ts |-> r.entry_ts,
           entry_route |-> r.entry_route, response |-> r.response ]

\* a client sends a query; the previous request has returned
Start ==
    /\ req.pc \in {"idle", "done"}
    /\ hist.nreq < MaxReq
    /\ \E q \in workload :
         /\ req' = NewReq(q)
         /\ hist' = [ nreq |-> hist.nreq + 1,
                      asked |-> IF req.pc = "done"
                                THEN hist.asked \cup {req.query} ELSE hist.asked,
                      prev |-> Summary(req) ]
    /\ UNCHANGED << now, cacheVars, max_cache_size, ttl_seconds, kb, coll_exists,
                   workload, keyq >>

\* cached_result = math_cache.get(query)
CacheLookup ==
    /\ req.pc = "cache"
    /\ LET k == CacheKey(req.query)
           cached_result == CacheGetResult(CM, ttl_seconds, req.query, now)
           after == CacheGetState(CM, ttl_seconds, req.query, now)
       IN /\ cache' = after.cache
          /\ access_count' = after.access_count
          /\ last_access' = after.last_access
          /\ req' = IF Truthy(cached_result)
                    THEN [req EXCEPT !.pc = "cache_route", !.trace = <<"cache">>,
                                     !.hit = TRUE,
                                     !.entry_ts = cache[k].timestamp,
                                     !.entry_route = cache[k].route,
                                     !.entry_query = cache[k].query,
                                     !.response = [result |-> cached_result]]
                    ELSE [req EXCEPT !.pc = "guard", !.trace = <<"cache">>]
    /\ UNCHANGED << now, max_cache_size, ttl_seconds, kb, coll_exists, workload,
                   hist, keyq >>

\* original_route = math_cache.get_route_info(query) or "Cache", and the
\* cache-hit return
CacheRoute ==
    /\ req.pc = "cache_route"
    /\ LET found == get_route_info(CM, ttl_seconds, req.query, now)
           original_route == IF found = "None" THEN "Cache" ELSE found
       IN req' = [req EXCEPT !.pc = "done", !.status = 200,
                             !.log = log_request_end(@, original_route, TRUE),
                             !.response = [ route |-> original_route,
                                            result |-> req.response.result,
                                            confidence |-> "high",
                                            cached |-> TRUE ]]
    /\ UNCHANGED << now, cacheVars, max_cache_size, ttl_seconds, kb, coll_exists,
                   workload, hist, keyq >>

\* a guardrail whose rejection does not stop the request
Guard_through ==
    /\ req.pc = "guard"
    /\ \E is_valid \in VerdictTable[req.query] :
         req' = [req EXCEPT !.pc = "kb", !.trace = Append(@, "guardrail"),
                            !.valid = IF is_valid THEN "yes" ELSE "no"]
    /\ UNCHANGED << now, cacheVars, max_cache_size, ttl_seconds, kb, coll_exists,
                   workload, hist, keyq >>

\* guardrails.process_request(query), and the blocked return
Guard ==
    /\ req.pc = "guard"
    /\ \E is_valid \in VerdictTable[req.query] :
         req' = IF is_valid
                THEN [req EXCEPT !.pc = "kb", !.trace = Append(@, "guardrail"),
                                 !.valid = "yes"]
                ELSE [req EXCEPT !.pc = "done", !.trace = Append(@, "guardrail"),
                                 !.valid = "no", !.status = 400,
                                 !.log = log_request_end(@, "Blocked", FALSE),
                                 !.response = [ error |-> "rejected",
                                                route |-> "blocked",
                                                message |-> "blocked by guardrails" ]]
    /\ UNCHANGED << now, cacheVars, max_cache_size, ttl_seconds, kb, coll_exists,
                   workload, hist, keyq >>

\* kb_result = kb_search_tool(query), and the KB return
KBStage ==
    /\ req.pc = "kb"
    /\ \E raises \in BOOLEAN :
         \E kb_result \in kb_search_tool(kb, coll_exists, req.query, raises) :
           IF KbAnswers(kb_result)
           THEN \E cm \in CacheSet(CM, max_cache_size, req.query,
                                   validate_output(kb_result).filtered, "KB", now) :
                  /\ cache' = cm.cache
                  /\ access_count' = cm.access_count
                  /\ last_access' = cm.last_access
                  /\ req' = [req EXCEPT !.pc = "done", !.trace = Append(@, "kb"),
                                        !.kb_result = kb_result,
                                        !.entry_ts = now, !.entry_route = "KB",
                                        !.entry_query = req.query,
                                        !.status = 200,
                                        !.calls = Called(@, {"set"}),
                                        !.checks = Append(@, kb_result),
                                        !.log = log_request_end(@, "KB", TRUE),
                                        !.response = KbResponse(kb_result)]
           ELSE /\ req' = [req EXCEPT !.pc = AfterKB(req.query),
                                      !.trace = Append(@, "kb"),
                                      !.checks = IF KbChecked(kb_result)
                                                 THEN Append(@, kb_result) ELSE @,
                                      !.kb_result = kb_result]
                /\ UNCHANGED cacheVars
    /\ UNCHANGED << now, max_cache_size, ttl_seconds, kb, coll_exists, workload,
                   hist, keyq >>

\* a tier's answer is persisted, cached and returned
AnswerFrom(tier, stage, origin, result) ==
    LET filtered_result == validate_output(result).filtered
    IN \E fault \in PersistFaults :
         \E out \in persist_to_kb(kb, coll_exists, origin, req.query,
                                  Get(filtered_result, "answer", NoneVal),
                                  Get(filtered_result, "steps", NoneVal),
                                  now, fault) :
           \E cm \in CacheSet(CM, max_cache_size, req.query, filtered_result,
                              cache_route(out.ok, tier), now) :
             /\ kb' = out.kb
             /\ coll_exists' = out.coll
             /\ cache' = cm.cache
             /\ access_count' = cm.access_count
             /\ last_access' = cm.last_access
             /\ req' = [req EXCEPT !.pc = "done", !.trace = Append(@, stage),
                                   !.kb_result = None,
                                   !.persisted = IF out.ok THEN "yes" ELSE "no",
                                   !.entry_ts = now,
                                   !.entry_route = cache_route(out.ok, tier),
                                   !.entry_query = req.query,
                                   !.status = 200,
                                   !.calls = Called(@, {stage, "persist", "set"}),
                                   !.checks = Append(@, result),
                                   !.log = log_request_end(@, tier, TRUE),
                                   !.response = [ route |-> tier,
                                                  result |-> filtered_result,
                                                  confidence |-> "medium" ]]

\* a web tier that searches a second time when the first search fails
WebStage_retry ==
    /\ req.pc = "web"
    /\ \E web_result \in WebOutcomes :
         IF TierAnswers(web_result)
         THEN AnswerFrom("Web", "web", "web", web_result)
         ELSE /\ req' = [req EXCEPT !.pc = IF req.calls.web = 0 THEN "web" ELSE "ai",
                                    !.trace = Append(@, "web"),
                                    !.calls = Called(@, {"web"}),
                                    !.kb_result = None]
              /\ UNCHANGED << cacheVars, kb, coll_exists >>
    /\ UNCHANGED << now, max_cache_size, ttl_seconds, workload, hist, keyq >>

\* web_result = web_search_tool(query), and the Web return
WebStage ==
    /\ req.pc = "web"
    /\ \E web_result \in WebOutcomes :
         IF TierAnswers(web_result)
         THEN AnswerFrom("Web", "web", "web", web_result)
         ELSE /\ req' = [req EXCEPT !.pc = "ai", !.trace = Append(@, "web"),
                                    !.calls = Called(@, {"web"}),
                                    !.checks = IF TierChecked(web_result)
                                               THEN Append(@, web_result) ELSE @,
                                    !.kb_result = None]
              /\ UNCHANGED << cacheVars, kb, coll_exists >>
    /\ UNCHANGED << now, max_cache_size, ttl_seconds, workload, hist, keyq >>

\* ai_result = openai_solve_tool(query), and the AI return
AIStage ==
    /\ req.pc = "ai"
    /\ \E ai_result \in AIOutcomes :
         IF TierAnswers(ai_result)
         THEN AnswerFrom("AI", "ai", "ai", ai_result)
         ELSE /\ req' = [req EXCEPT !.pc = "human", !.trace = Append(@, "ai"),
                                    !.calls = Called(@, {"ai"}),
                                    !.checks = IF TierChecked(ai_result)
                                               THEN Append(@, ai_result) ELSE @,
                                    !.kb_result = None]
              /\ UNCHANGED << cacheVars, kb, coll_exists >>
    /\ UNCHANGED << now, max_cache_size, ttl_seconds, workload, hist, keyq >>

\* a Human return that caches the request for feedback
HumanStage_cached ==
    /\ req.pc = "human"
    /\ \E cm \in CacheSet(CM, max_cache_size, req.query,
                           require_human_feedback(req.query), "Human", now) :
         /\ cache' = cm.cache
         /\ access_count' = cm.access_count
         /\ last_access' = cm.last_access
    /\ req' = [req EXCEPT !.pc = "done", !.trace = Append(@, "human"),
                          !.status = 200,
                          !.response = [ route |-> "Human",
                                         result |-> require_human_feedback(req.query),
                                         confidence |-> "low" ]]
    /\ UNCHANGED << now, max_cache_size, ttl_seconds, kb, coll_exists,
                   workload, hist, keyq >>

\* the Human return
HumanStage ==
    /\ req.pc = "human"
    /\ req' = [req EXCEPT !.pc = "done", !.trace = Append(@, "human"),
                          !.status = 200,
                          !.response = [ route |-> "Human",
                                         result |-> require_human_feedback(req.query),
                                         confidence |-> "low" ]]
    /\ UNCHANGED << now, cacheVars, max_cache_size, ttl_seconds, kb, coll_exists,
                   workload, hist, keyq >>

\* the two emoji, one element each, and the three characters main.py holds
\* in place of the thumbs-up (the file's literal is mis-encoded)
ThumbsUp == << "U+1F44D" >>
ThumbsDown == << "U+1F44E" >>
ThumbsUpMisencoded == << "U+00F0", "U+0178", "U+2018" >>

F_helpful == <<"h","e","l","p","f","u","l">>
F_unhelpful == <<"u","n","h","e","l","p","f","u","l">>
F_bad == <<"b","a","d">>

\* main.py:182
positive_feedback_types ==
    { ThumbsUpMisencoded, F_helpful, <<"g","o","o","d">>,
      <<"e","x","c","e","l","l","e","n","t">>, <<"a","c","c","u","r","a","t","e">>,
      <<"u","s","e","f","u","l">> }

\* the feedback a user sends
FeedbackTypes == { ThumbsUp, ThumbsDown, F_helpful, F_unhelpful, F_bad }

\* any(pos_type in feedback_lower for pos_type in positive_feedback_types)
is_positive_feedback(feedback) ==
    \E pos_type \in positive_feedback_types : Contains(Lower(feedback), pos_type)

\* the test on the feedback types of the model, computed once
PositiveTable == [f \in FeedbackTypes |-> is_positive_feedback(f)]

\* request.route.lower()
route_lower(route) ==
    CASE route = "Web" -> "web"
      [] route = "AI" -> "ai"
      [] route = "KB" -> "kb"
      [] route = "Human" -> "human"
      [] route = "Cache" -> "cache"
      [] OTHER -> route

\* submit_feedback_with_storage: (stored_in_kb, points afterwards)
submit_feedback_with_storage(pts, coll, query, response, route, feedback, t, raises) ==
    IF PositiveTable[feedback]
       /\ route_lower(route) \in {"web", "ai", "web_search", "ai_generation"}
    THEN LET out == store_validated_response_in_kb(pts, coll, query, response,
                                                   route_lower(route), t, raises)
         IN [stored_in_kb |-> out.ok, kb |-> out.kb]
    ELSE [stored_in_kb |-> FALSE, kb |-> pts]

\* POST /api/feedback_with_storage: the user rates the answer just shown,
\* sending back its query, answer and route
Feedback ==
    /\ req.pc = "done"
    /\ hist.nreq < MaxReq
    /\ ~ req.fb
    /\ req.status = 200
    /\ \E feedback \in FeedbackTypes, raises \in BOOLEAN :
         LET out == submit_feedback_with_storage(
                        kb, coll_exists, req.query,
                        Get(req.response.result, "answer", NoneVal),
                        req.response.route, feedback, now, raises)
         IN /\ kb' = out.kb
            /\ req' = [req EXCEPT !.fb = TRUE, !.fb_type = feedback,
                                  !.fb_stored = IF out.stored_in_kb THEN "yes" ELSE "no",
                                  !.fb_pre = kb]
    /\ UNCHANGED << now, cacheVars, max_cache_size, ttl_seconds, coll_exists,
                   workload, hist, keyq >>

\* the clock moves on: between two requests, and between the two cache
\* reads of a cache hit
Tick ==
    /\ IF req.pc = "done" THEN hist.nreq < MaxReq ELSE req.pc = "cache_route"
    /\ now < Epoch + MaxClock
    /\ now' = now + 1
    /\ UNCHANGED << cacheVars, max_cache_size, ttl_seconds, kb, coll_exists,
                   workload, req, hist, keyq >>

Next ==
    \/ Start
    \/ CacheLookup
    \/ CacheRoute
    \/ Guard
    \/ KBStage
    \/ WebStage
    \/ AIStage
    \/ HumanStage
    \/ Feedback
    \/ Tick

Spec == Init /\ [][Next]_vars

\* main.global_exception_handler: the 500 response to an exception that
\* nothing caught
global_exception_handler ==
    [ error |-> "Internal server error",
      message |-> "An unexpected error occurred. Please try again.",
      timestamp |-> now ]

\* an exception raised inside agent_route where nothing catches it (a cache
\* or analytics call, the import at the head of openai_solve_tool): the
\* stage is abandoned and the handler answers
InternalFault ==
    /\ req.pc \in {"cache", "cache_route", "guard", "kb", "web", "ai", "human"}
    /\ req' = [req EXCEPT !.pc = "done", !.status = 500,
                          !.response = global_exception_handler]
    /\ UNCHANGED << now, cacheVars, max_cache_size, ttl_seconds, kb, coll_exists,
                   workload, hist, keyq >>

\* SpecFault: the requests of Spec, any of which may end in an exception
NextFault == Next \/ InternalFault

SpecFault == Init /\ [][NextFault]_vars

\* ------------------------------------------------------------------------
\* Properties of agent_route
\* ------------------------------------------------------------------------
LastStage == req.trace[Len(req.trace)]

\* the request's cache key
ReqKey == CacheKey(req.query)

\* C1, as stated: a request that has returned carries exactly one route, one
\* of blocked, KB, Web, AI, Human, error, and went through no stage twice
C1_TerminalRoute ==
    req.pc = "done" =>
        /\ req.response.route \in {"blocked", "KB", "Web", "AI", "Human", "error"}
        /\ \A i, j \in 1..Len(req.trace) : i # j => req.trace[i] # req.trace[j]

\* the route answered from the stage the request ended in
RouteOfStage(stage) ==
    CASE stage = "cache" -> {"KB", "Web", "AI", "Cache"}
      [] stage = "guardrail" -> {"blocked"}
      [] stage = "kb" -> {"KB"}
      [] stage = "web" -> {"Web"}
      [] stage = "ai" -> {"AI"}
      [] stage = "human" -> {"Human"}

\* the stage a request waits to enter
PendingStage ==
    CASE req.pc = "guard" -> "guardrail"
      [] req.pc = "cache_route" -> "cache"
      [] req.pc = "done" -> LastStage
      [] OTHER -> req.pc

\* may stage b be the next stage entered after stage a
Follows(a, b) ==
    IF a = "kb" /\ SkipWebTable[req.query]
    THEN b = "ai"
    ELSE StageIndex(b) = StageIndex(a) + 1

\* C2: the stages of a request are entered in the order cache, guardrail,
\* KB, web, AI, human, each right after the one before it, except that web
\* search is skipped, and then always, for a query with an invention keyword;
\* the answer comes from the last stage entered
C2_StageOrder ==
    (req.pc \notin {"idle", "cache"}) =>
        /\ req.trace[1] = "cache"
        /\ \A i \in 1..(Len(req.trace) - 1) : Follows(req.trace[i], req.trace[i + 1])
        /\ req.pc \notin {"done", "cache_route"} => Follows(LastStage, PendingStage)
        /\ req.pc = "done" => req.response.route \in RouteOfStage(LastStage)
        /\ SkipWebTable[req.query] =>
             \A i \in 1..Len(req.trace) : req.trace[i] # "web"

\* an invention query was answered by AI without a web search
C2_Witness ==
    /\ req.pc = "done"
    /\ req.query = Q_invent
    /\ req.trace = << "cache", "guardrail", "kb", "ai" >>
    /\ req.response.route = "AI"

\* the request repeats the query of the request before it, which was
\* answered, and the entry that request wrote or read is at most TTL old
RepeatWithinTTL ==
    /\ req.pc = "done"
    /\ hist.prev.pc = "done"
    /\ hist.prev.query = req.query
    /\ hist.prev.response.route \in {"KB", "Web", "AI"}
    /\ req.t0 - hist.prev.entry_ts <= ttl_seconds

\* C3, as stated: the repeat call within the TTL is a cache hit with the
\* result and the route of the first call and no tier invoked again
C3_SameRouteAsFirstCall ==
    RepeatWithinTTL =>
        /\ Get(req.response, "cached", FALSE)
        /\ req.response.result = hist.prev.response.result
        /\ req.response.route = hist.prev.response.route
        /\ req.trace = << "cache" >>

\* C3: the repeat call within the TTL is a cache hit with the result of the
\* first call and no tier invoked again; its route is the label of the cache
\* entry, which is KB when the first call persisted its Web or AI answer and
\* the first call's route otherwise, or "Cache" when the entry expires
\* between the two cache reads
C3_IdempotentCaching ==
    RepeatWithinTTL =>
        /\ req.hit
        /\ Get(req.response, "cached", FALSE)
        /\ req.response.result = hist.prev.response.result
        /\ req.trace = << "cache" >>
        /\ req.entry_ts = hist.prev.entry_ts
        /\ req.response.route \in {hist.prev.entry_route, "Cache"}
        /\ req.response.route = "Cache" => now - req.entry_ts > ttl_seconds
        /\ ~ hist.prev.hit =>
             hist.prev.entry_route =
                 (IF hist.prev.persisted = "yes" THEN "KB"
                  ELSE hist.prev.response.route)

\* a Web answer was persisted, and the repeat call is answered with route KB
C3_Witness ==
    /\ RepeatWithinTTL
    /\ hist.prev.response.route = "Web"
    /\ hist.prev.persisted = "yes"
    /\ req.response.route = "KB"
    /\ Get(req.response, "cached", FALSE)

\* C4: a request answered by Web or AI returns that route with status 200
\* whether or not persist_to_kb succeeded, and its answer is in the cache
\* under the route KB exactly when persist_to_kb returned true
C4_PersistFailureNonFatal ==
    (req.pc = "done" /\ ~ req.hit /\ LastStage \in {"web", "ai"}) =>
          /\ req.response.route = (IF LastStage = "web" THEN "Web" ELSE "AI")
          /\ req.status = 200
          /\ "answer" \in DOMAIN req.response.result
          /\ req.persisted \in {"yes", "no"}
          /\ ReqKey \in DOMAIN cache
          /\ cache[ReqKey].result = req.response.result
          /\ cache[ReqKey].route = "KB" <=> req.persisted = "yes"
          /\ cache[ReqKey].route \in {"KB", req.response.route}

\* persistence failed, and the Web answer was returned and cached as Web
C4_Witness ==
    /\ req.pc = "done"
    /\ req.response.route = "Web"
    /\ req.persisted = "no"
    /\ ReqKey \in DOMAIN cache
    /\ cache[ReqKey].route = "Web"

\* the score of a stored point against the request's query
ReqScore(id) == Score(Encode(req.query), kb[id].vector)

\* the stored points scoring 0.50 against the request's query
Cands50 == { id \in DOMAIN kb : ReqScore(id) = 50 }

\* the KB stage has just run, without an error, for a query without digits
\* and without an exact match, and every stored point is a top-3 candidate
\* that scores 0.50 or below 0.45
C6Case ==
    /\ req.pc \in {"web", "ai", "done"}
    /\ LastStage = "kb"
    /\ req.kb_result # KbError
    /\ ~ HasDigit(req.query)
    /\ Cardinality(DOMAIN kb) <= SemanticLimit
    /\ \A id \in DOMAIN kb :
         /\ NormOf(kb[id]) # Norm(req.query)
         /\ ReqScore(id) = 50 \/ ReqScore(id) < 45
    /\ Cands50 # {}

\* C6, as stated: a candidate with validated_by_user = true and score 0.50
\* is answered with route KB, a candidate with validated_by_user = false and
\* score 0.50 is rejected and the request goes to web search
C6_ValidatedFlagDecides ==
    C6Case =>
        IF \E id \in Cands50 : Get(kb[id].payload, "validated_by_user", FALSE)
        THEN req.pc = "done" /\ req.response.route = "KB"
        ELSE req.pc = "web"

\* C6: a candidate with score 0.50 is answered with route KB when it is
\* flagged validated_by_user or its route_origin is web or ai (its answer
\* passing the output guardrail); a candidate with score 0.50 that is
\* neither is rejected, and the request goes to web search, or to AI for a
\* query with an invention keyword
C6_ThresholdAsymmetry ==
    C6Case =>
        IF \E id \in Cands50 :
              \/ Get(kb[id].payload, "validated_by_user", FALSE)
              \/ Get(kb[id].payload, "route_origin", NoneVal) \in {"web", "ai"}
        THEN /\ req.pc = "done"
             /\ req.response.route = "KB"
             /\ req.response.confidence = "medium"
             /\ req.kb_result.score = 50
        ELSE /\ req.kb_result = None
             /\ req.pc = (IF SkipWebTable[req.query] THEN "ai" ELSE "web")

\* a validated record scoring 0.50 answered the request with route KB
C6_Witness ==
    /\ C6Case
    /\ \E id \in Cands50 : Get(kb[id].payload, "validated_by_user", FALSE)
    /\ req.pc = "done"
    /\ req.response.route = "KB"

\* the request for "Compute 2+2" has looked into the cache
Compute22LookedUp ==
    /\ req.pc \notin {"idle", "cache"}
    /\ req.query = Q_Compute22

\* C10, as stated: once "What is 2 + 2?" is answered and cached, the query
\* "Compute 2+2" hits that entry and is served from it
C10_ComputeHitsWhatIs ==
    (Compute22LookedUp
        /\ hist.prev.pc = "done"
        /\ hist.prev.query = Q_WhatIs22
        /\ hist.prev.response.route \in {"KB", "Web", "AI"}
        /\ req.t0 - hist.prev.entry_ts <= ttl_seconds)
    => req.hit /\ req.entry_query = Q_WhatIs22

\* C10: the keys of "What is 2 + 2?" and "Compute 2+2" differ (the second
\* folds to "solve 2+2"), so "Compute 2+2" misses the cache unless an earlier
\* request with its own key was cached, and an entry that is hit always has
\* the key of the request's query
C10_ComputeMissesWhatIs ==
    /\ KeyTable[Q_WhatIs22] # KeyTable[Q_Compute22]
    /\ KeyTable[Q_Compute22] = Md5(<<"s","o","l","v","e"," ","2","+","2">>)
    /\ KeyTable[Q_WhatIs22]
         = Md5(<<"w","h","a","t"," ","i","s"," ","2"," ","+"," ","2","?">>)
    /\ (Compute22LookedUp /\ Q_Compute22 \notin hist.asked) => ~ req.hit
    /\ (req.pc # "idle" /\ req.hit)
       => CacheKey(req.entry_query) = ReqKey

\* "What is 2 + 2?" was answered by Web and cached, and "Compute 2+2", sent
\* within the TTL, missed the cache and went on to the guardrail
C10_Witness ==
    /\ Compute22LookedUp
    /\ hist.prev.pc = "done"
    /\ hist.prev.query = Q_WhatIs22
    /\ hist.prev.response.route = "Web"
    /\ req.t0 - hist.prev.entry_ts <= ttl_seconds
    /\ ~ req.hit
    /\ Len(req.trace) >= 2

\* C12, as stated: a cache hit returns the tier label of the entry whose
\* result it returns, one of KB, Web, AI, and never "Cache", also when the
\* clock passes the TTL between get and get_route_info
C12_HitRouteIsEntryLabel ==
    (req.pc = "done" /\ req.hit) =>
        /\ req.response.cached
        /\ req.response.route = req.entry_route
        /\ req.entry_route \in {"KB", "Web", "AI"}

\* C13: a KB stage that does not answer is followed by the web stage, and
\* for a query that holds an ai_first keyword by the AI stage instead, and
\* then the web provider is not called in the request; a request that ends
\* in the KB stage had an accepted match
C13_FallbackMonotonicity ==
    (req.pc \notin {"idle", "cache"}) =>
        LET next == IF SkipWebTable[req.query] THEN "ai" ELSE "web"
        IN /\ \A i \in 1..Len(req.trace) :
                req.trace[i] = "kb" =>
                    IF i < Len(req.trace) THEN req.trace[i + 1] = next
                    ELSE IF req.pc = "done" THEN KbAnswers(req.kb_result)
                    ELSE /\ req.pc = next
                         /\ ~ KbAnswers(req.kb_result)
           /\ SkipWebTable[req.query] =>
                /\ req.pc # "web"
                /\ \A i \in 1..Len(req.trace) : req.trace[i] # "web"

\* the KB had no match for "expand y": web search was tried, failed, and
\* the AI answered
C13_Witness ==
    /\ req.pc = "done"
    /\ req.query = Q_expandy
    /\ req.trace = << "cache", "guardrail", "kb", "web", "ai" >>
    /\ req.response.route = "AI"

\* C14: a request the input guardrail rejects ends at once with status 400,
\* route blocked and the guardrail's reason; it enters no later stage, the
\* rejecting step and everything up to the next request leave the cache and
\* the collection as they were, nothing is cached for the query, and the
\* guardrail is not run again; only a rejected request is blocked
C14_BlockedIsTerminal ==
    /\ []((req.pc # "idle" /\ req.valid = "no") =>
            /\ req.pc = "done"
            /\ req.status = 400
            /\ req.response.route = "blocked"
            /\ "error" \in DOMAIN req.response
            /\ req.trace = << "cache", "guardrail" >>
            /\ req.kb_result = None
            /\ req.persisted = "none"
            /\ ReqKey \notin DOMAIN cache)
    /\ []((req.pc = "done" /\ req.response.route = "blocked") => req.valid = "no")
    /\ [][(req.pc = "guard" /\ req'.valid = "no") =>
             UNCHANGED << cacheVars, kb, coll_exists >>]_vars
    /\ [][(req.pc = "done" /\ req.valid = "no") =>
             /\ UNCHANGED << cacheVars, kb, coll_exists >>
             /\ (req' = req \/ req'.pc = "cache")]_vars

\* "solve x" was rejected by the guardrail and answered with route blocked
C14_Witness ==
    /\ req.pc = "done"
    /\ req.valid = "no"
    /\ req.query = Q_solvex
    /\ req.response.route = "blocked"
    /\ req.status = 400

\* the stages of a request that no tier answered
ExhaustedTrace(query) ==
    IF SkipWebTable[query]
    THEN << "cache", "guardrail", "kb", "ai", "human" >>
    ELSE << "cache", "guardrail", "kb", "web", "ai", "human" >>

C15_KbErrorAbsorbed ==
    /\ req.pc = "web"
    /\ LastStage = "kb"
    /\ "error" \in DOMAIN req.kb_result

\* the route label the analytics give a returned route: the blocked return
\* is logged as "Blocked"
LoggedRoute(route) == IF route = "blocked" THEN "Blocked" ELSE route

\* C16: every request that has returned -- cache hit, blocked, KB, Web, AI
\* or Human -- had log_request_end called exactly once for its tracking id,
\* with the route it returned and a success flag
C16_TraceCompleted ==
    (req.pc = "done") =>
      /\ req.log.ends = 1
      /\ req.log.route = LoggedRoute(req.response.route)
      /\ req.log.success \in {"True", "False"}

\* every route but Human completes its trace entry exactly once
C16_AnsweredRoutesLogged ==
    (req.pc # "idle") =>
      /\ req.log.ends <= 1
      /\ (req.log.ends = 1) => (req.pc = "done")
      /\ (req.pc = "done" /\ req.response.route # "Human") =>
            /\ req.log.ends = 1
            /\ req.log.route = LoggedRoute(req.response.route)
            /\ req.log.success = (IF req.status = 200 THEN "True" ELSE "False")
      /\ (req.pc = "done" /\ req.response.route = "Human") =>
            /\ req.log.ends = 0
            /\ req.log.route = NoneVal

\* C17: the step in which a request returns from the KB, web or AI stage
\* writes the request's cache entry (result as returned, timestamp now);
\* every other step after the cache lookup -- the cache-hit return, the
\* blocked return, a tier passed over, the Human return -- and every step
\* between two requests leaves the three cache dictionaries unchanged; the
\* lookup itself at most removes the request's expired entry; so no entry
\* ever holds a request for feedback or an error, or a label other than
\* KB, Web or AI
C17_CacheWrites ==
    /\ [](\A k \in DOMAIN cache :
            /\ cache[k].route \in {"KB", "Web", "AI"}
            /\ "action_required" \notin DOMAIN cache[k].result
            /\ "error" \notin DOMAIN cache[k].result)
    /\ [][(req.pc \in {"kb", "web", "ai"} /\ req'.pc = "done") =>
             /\ req'.response.route \in {"KB", "Web", "AI"}
             /\ ~ req'.hit
             /\ ReqKey \in DOMAIN cache'
             /\ cache'[ReqKey].result = req'.response.result
             /\ cache'[ReqKey].timestamp = now
             /\ cache'[ReqKey].query = req.query
             /\ \A k \in DOMAIN cache' \ {ReqKey} :
                   k \in DOMAIN cache /\ cache'[k] = cache[k]]_vars
    /\ [][(req.pc \in {"kb", "web", "ai"} /\ req'.pc # "done") =>
             UNCHANGED cacheVars]_vars
    /\ [][(req.pc \in {"idle", "cache_route", "guard", "human", "done"}) =>
             UNCHANGED cacheVars]_vars
    /\ [][(req.pc = "cache") => cache' \in {cache, Pop(cache, ReqKey)}]_vars

\* a request returned as Human while the cache holds the entry of an
\* earlier answered request, and none for this one
C17_Witness ==
    /\ req.pc = "done"
    /\ req.response.route = "Human"
    /\ cache # << >>
    /\ ReqKey \notin DOMAIN cache

\* a request answered by the web stage has its entry in the cache
C17_Written ==
    /\ req.pc = "done"
    /\ ~ req.hit
    /\ req.response.route = "Web"
    /\ ReqKey \in DOMAIN cache
    /\ cache[ReqKey].result = req.response.result

\* the stored records whose question_norm is the normalized query of the
\* request
ExactRecords ==
    { id \in DOMAIN kb :
        Get(kb[id].payload, "question_norm", NoneStr) = normalize_question(req.query) }

\* the KB search of the request has just run, did not fail, and the
\* collection held a record for the normalized query
ExactSearched ==
    /\ req.pc \notin {"idle", "cache"}
    /\ LastStage = "kb"
    /\ "error" \notin DOMAIN req.kb_result
    /\ ExactRecords # {}

\* C18 as stated: a stored record for the normalized query is returned with
\* the label "Knowledge Base (Exact)" and the request is answered with
\* route KB
C18_ExactAnswersKB ==
    ExactSearched =>
      /\ Get(req.kb_result, "source", "") = "Knowledge Base (Exact)"
      /\ req.pc = "done"
      /\ req.response.route = "KB"

\* C18, amended: kb_search_tool returns a stored record for the normalized
\* query, with the label "Knowledge Base (Exact)" and its raw score, without
\* a threshold of its own and before any semantic candidate; agent_route
\* then answers with route KB exactly when that score meets the route
\* threshold and the output guardrail accepts the record, and otherwise
\* goes on to the web search (or to AI)
C18_ExactMatchFirst ==
    /\ ExactSearched =>
          /\ Get(req.kb_result, "source", "") = "Knowledge Base (Exact)"
          /\ \E id \in ExactRecords :
                /\ req.kb_result.answer = kb[id].payload.answer
                /\ req.kb_result.score = ReqScore(id)
          /\ (req.pc = "done") <=>
                /\ req.kb_result.score >= RouteThreshold(req.kb_result)
                /\ ResponseSafe(req.kb_result)
          /\ (req.pc = "done") => (req.response.route = "KB")
          /\ (req.pc # "done") =>
                req.pc = (IF skip_web_search(req.query) THEN "ai" ELSE "web")
    /\ (/\ req.pc \notin {"idle", "cache"}
        /\ LastStage = "kb"
        /\ Get(req.kb_result, "source", "") = "Knowledge Base (Exact)") =>
          ExactRecords # {}

\* the stored record for "expand y" was returned as an exact match and the
\* request was answered with route KB
C18_Witness ==
    /\ ExactSearched
    /\ req.query = Q_expandy
    /\ req.kb_result.source = "Knowledge Base (Exact)"
    /\ req.pc = "done"
    /\ req.response.route = "KB"

\* an exact match the output guardrail refused: the request is in the web
\* stage
C18_ExactRefused ==
    /\ ExactSearched
    /\ req.kb_result.source = "Knowledge Base (Exact)"
    /\ req.kb_result.score = 100
    /\ req.pc = "web"

\* the records stored for the question of the request with origin web or ai
\* before the feedback was sent
FeedbackTargets ==
    { id \in DOMAIN req.fb_pre :
        /\ Get(req.fb_pre[id].payload, "question", NoneStr) = req.query
        /\ Get(req.fb_pre[id].payload, "route_origin", NoneVal) \in {"web", "ai"} }

\* C21: feedback that was stored marked the existing record of the query
\* as validated in place: the record is still there with its question and
\* origin, now with validated_by_user true, and the collection holds as many
\* records as before
C21_MarkValidatedInPlace ==
    (req.pc = "done" /\ req.fb_stored = "yes" /\ FeedbackTargets # {}) =>
      /\ Cardinality(DOMAIN kb) = Cardinality(DOMAIN req.fb_pre)
      /\ \A id \in FeedbackTargets :
            /\ id \in DOMAIN kb
            /\ kb[id].payload.question = req.fb_pre[id].payload.question
            /\ kb[id].payload.route_origin = req.fb_pre[id].payload.route_origin
            /\ kb[id].payload.validated_by_user

\* what the code does instead: stored feedback adds one record under a
\* fresh id and leaves every record that was there as it was
C21_FeedbackAppends ==
    (req.pc = "done" /\ req.fb) =>
      /\ (req.fb_stored = "yes") =>
            /\ Cardinality(DOMAIN kb) = Cardinality(DOMAIN req.fb_pre) + 1
            /\ \A id \in DOMAIN req.fb_pre : id \in DOMAIN kb /\ kb[id] = req.fb_pre[id]
            /\ \E id \in DOMAIN kb \ DOMAIN req.fb_pre :
                  /\ kb[id].payload.question = req.query
                  /\ kb[id].payload.validated_by_user
      /\ (req.fb_stored = "no") => (kb = req.fb_pre)

\* the negative feedback types (routes_feedback.py:274) among those sent
NegativeSent == { ThumbsDown, F_unhelpful, F_bad }

\* C25: feedback is stored in the KB only when its type is positive and the
\* route is Web or AI; a negative type is never stored and feedback on a KB
\* answer is never stored
C25_StoredOnlyPositiveWebAI ==
    (req.pc = "done" /\ req.fb_stored = "yes") =>
      /\ req.fb_type \notin NegativeSent
      /\ req.response.route \in {"Web", "AI"}

\* what the code does: only feedback that holds "helpful" -- "unhelpful"
\* too -- on a Web or AI route is stored; the thumbs-up is not
C25_StoredIffHoldsHelpful ==
    (req.pc = "done" /\ req.fb) =>
      /\ (req.fb_stored = "yes") =>
            /\ req.fb_type \in { F_helpful, F_unhelpful }
            /\ req.response.route \in {"Web", "AI"}
      /\ (req.response.route \notin {"Web", "AI"}) => (req.fb_stored = "no")
      /\ (req.fb_type \in { ThumbsUp, ThumbsDown, F_bad }) => (req.fb_stored = "no")

\* the records that were stored before the last persist_to_kb call for a
\* question other than the call's (another normalized text)
OtherRecords ==
    { id \in DOMAIN hist.pre :
        normalize_question(hist.pre[id].payload.question) # Norm(hist.query) }

C23_FailureCarriesRoute ==
    (req.pc = "done" /\ req.status >= 400) =>
      /\ "error" \in DOMAIN req.response
      /\ "route" \in DOMAIN req.response

\* what the code does: the rejection carries route blocked; the answer to
\* an exception is the same generic payload whatever was raised, with no
\* route
C23_FaultIsGeneric ==
    (req.pc = "done") =>
      /\ req.status \in {200, 400, 500}
      /\ (req.status = 400) => (req.response.route = "blocked")
      /\ (req.status = 500) =>
            /\ DOMAIN req.response = {"error", "message", "timestamp"}
            /\ req.response.error = "Internal server error"
      /\ (req.status = 200) => ("route" \in DOMAIN req.response)

\* the confidence label the routing rules give a route and a KB score
ConfidenceOf(route, result) ==
    CASE route = "KB" ->
           IF Get(result, "score", 100) >= RegularThreshold THEN "high" ELSE "medium"
      [] route \in {"Web", "AI"} -> "medium"
      [] route = "Human" -> "low"
      [] OTHER -> "none"

\* C24: every answered request carries the label of its route: high for a
\* KB answer with score >= 0.65, medium for a KB answer below it and for Web
\* and AI answers, low for Human
C24_ConfidenceLabel ==
    (req.pc = "done" /\ req.status = 200
        /\ req.response.route \in {"KB", "Web", "AI", "Human"}) =>
      req.response.confidence = ConfidenceOf(req.response.route, req.response.result)

\* what the code does: the labels of the claim on every answer that did not
\* come from the cache, and high on every cache hit
C24_LabelUnlessCached ==
    (req.pc = "done" /\ req.status = 200) =>
      IF req.hit
      THEN req.response.confidence = "high"
      ELSE req.response.confidence =
             ConfidenceOf(req.response.route, req.response.result)

\* a KB answer accepted between the two thresholds was labelled medium
C24_MediumKB ==
    /\ req.pc = "done"
    /\ ~ req.hit
    /\ req.response.route = "KB"
    /\ req.response.result.score < RegularThreshold
    /\ req.response.confidence = "medium"

\* ------------------------------------------------------------------------
\* SpecRace: two agent_route requests for one new question, both past their
\* tier, run persist_to_kb and math_cache.set in separate threads. A thread
\* can be preempted between the dedup search and the upsert, and between
\* the statements of set().
\* ------------------------------------------------------------------------
Writers == {1, 2}

\* the (route_origin, answer) each request brings
WriterCall == << <<"web", "a1">>, <<"ai", "a2">> >>

RaceQuery == Q_WhatIs22

InitRace ==
    /\ now = Epoch
    /\ cache = << >>
    /\ access_count = << >>
    /\ last_access = << >>
    /\ max_cache_size = 1000
    /\ ttl_seconds = TtlTicks
    /\ kb = << >>
    /\ coll_exists = TRUE
    /\ workload = { RaceQuery }
    /\ req = [w \in Writers |-> [pc |-> "search", fresh |-> NoId, id |-> NoId,
                                  found |-> FALSE]]
    /\ keyq = KeyIdle
    /\ hist = [upserted |-> << >>, written |-> << >>]

\* persist_to_kb up to the upsert: the candidate point with its timestamp
\* id, and the dedup search
RSearch(w) ==
    /\ req[w].pc = "search"
    /\ \E hits \in Search(kb, Encode(RaceQuery), DedupLimit) :
         req' = [req EXCEPT ![w] =
                   [pc |-> "upsert", fresh |-> now,
                    id |-> PointId(hits, Norm(RaceQuery), now),
                    found |-> (ExistingId(hits, Norm(RaceQuery)) \notin {NoId, 0})]]
    /\ UNCHANGED << now, cacheVars, max_cache_size, ttl_seconds, kb, coll_exists,
                   workload, hist, keyq >>

\* the point a writer upserts
RacePoint(w) ==
    [ vector |-> Encode(RaceQuery),
      payload |-> PersistPayload(WriterCall[w][1], RaceQuery, WriterCall[w][2],
                                 NoneVal) ]

\* an upsert that repeats the dedup search at the moment it writes
RUpsert_recheck(w) ==
    /\ req[w].pc = "upsert"
    /\ \E hits \in Search(kb, Encode(RaceQuery), DedupLimit) :
         kb' = Put(kb, PointId(hits, Norm(RaceQuery), req[w].fresh), RacePoint(w))
    /\ req' = [req EXCEPT ![w].pc = "set"]
    /\ hist' = [hist EXCEPT !.upserted = Append(@, w)]
    /\ UNCHANGED << now, cacheVars, max_cache_size, ttl_seconds, coll_exists,
                   workload, keyq >>

\* client.upsert(points=[new_point]) under the id the search left
RUpsert(w) ==
    /\ req[w].pc = "upsert"
    /\ kb' = Put(kb, req[w].id, RacePoint(w))
    /\ req' = [req EXCEPT ![w].pc = "set"]
    /\ hist' = [hist EXCEPT !.upserted = Append(@, w)]
    /\ UNCHANGED << now, cacheVars, max_cache_size, ttl_seconds, coll_exists,
                   workload, keyq >>

\* math_cache.set: self.cache[cache_key] = cached_data
RSetEntry(w) ==
    /\ req[w].pc = "set"
    /\ cache' = Put(cache, CacheKey(RaceQuery),
                    [ result |-> [answer |-> WriterCall[w][2]], route |-> "KB",
                      timestamp |-> now, query |-> RaceQuery ])
    /\ req' = [req EXCEPT ![w].pc = "access"]
    /\ hist' = [hist EXCEPT !.written = Append(@, w)]
    /\ UNCHANGED << now, access_count, last_access, max_cache_size, ttl_seconds,
                   kb, coll_exists, workload, keyq >>

\* math_cache.set: access_count[cache_key] = 1 and last_access[cache_key] =
\* time.time()
RSetAccess(w) ==
    /\ req[w].pc = "access"
    /\ access_count' = Put(access_count, CacheKey(RaceQuery), 1)
    /\ last_access' = Put(last_access, CacheKey(RaceQuery), now)
    /\ req' = [req EXCEPT ![w].pc = "done"]
    /\ UNCHANGED << now, cache, max_cache_size, ttl_seconds, kb, coll_exists,
                   workload, hist, keyq >>

\* the clock moves on while a writer is at work
RTick ==
    /\ \E w \in Writers : req[w].pc # "done"
    /\ now < Epoch + MaxClock
    /\ now' = now + 1
    /\ UNCHANGED << cacheVars, max_cache_size, ttl_seconds, kb, coll_exists,
                   workload, req, hist, keyq >>

NextRace ==
    \/ \E w \in Writers : RSearch(w)
    \/ \E w \in Writers : RUpsert(w)
    \/ \E w \in Writers : RSetEntry(w)
    \/ \E w \in Writers : RSetAccess(w)
    \/ RTick

SpecRace == InitRace /\ [][NextRace]_vars

\* the writer among S that comes last in the sequence
LastAmong(seq, S) ==
    seq[CHOOSE i \in 1..Len(seq) :
          /\ seq[i] \in S
          /\ \A j \in (i + 1)..Len(seq) : seq[j] \notin S]

AllWritten == \A w \in Writers : req[w].pc = "done"

\* the stored records of the question
RaceRecords == { id \in DOMAIN kb : NormOf(kb[id]) = Norm(RaceQuery) }

\* C26: nothing orders the dedup search of one writer and the upsert of the
\* other. When all writers are through, the collection holds one point per
\* id a search left, each with the answer of the last writer that upserted
\* under it: two writers whose searches both found nothing leave two
\* records with the same question_norm if their timestamp ids differ and
\* one record, the later write, if they are equal. The cache entry is the
\* one of the writer that assigned it last.
C26_LastWriteWins ==
    AllWritten =>
      /\ DOMAIN kb = { req[w].id : w \in Writers }
      /\ \A id \in DOMAIN kb :
            kb[id].payload.answer =
              WriterCall[LastAmong(hist.upserted, {w \in Writers : req[w].id = id})][2]
      /\ RaceRecords = DOMAIN kb
      /\ ((\A w \in Writers : ~ req[w].found) /\ req[1].fresh # req[2].fresh) =>
            Cardinality(RaceRecords) = 2
      /\ ((\A w \in Writers : ~ req[w].found) /\ req[1].fresh = req[2].fresh) =>
            Cardinality(RaceRecords) = 1
      /\ (\E w \in Writers : req[w].found) => Cardinality(RaceRecords) = 1
      /\ cache[CacheKey(RaceQuery)].result.answer =
            WriterCall[LastAmong(hist.written, Writers)][2]

\* both searches ran before either upsert: two records for one question,
\* and the cache holds the entry of the writer that upserted first
C26_Witness ==
    /\ AllWritten
    /\ Cardinality(RaceRecords) = 2
    /\ \A w \in Writers : ~ req[w].found
    /\ LastAmong(hist.written, Writers) # LastAmong(hist.upserted, Writers)

\* both writers drew the same id: one record, the later write
C26_SameId ==
    /\ AllWritten
    /\ \A w \in Writers : ~ req[w].found
    /\ req[1].fresh = req[2].fresh
    /\ Cardinality(DOMAIN kb) = 1
    /\ kb[req[1].id].payload.answer = WriterCall[LastAmong(hist.upserted, Writers)][2]

\* ------------------------------------------------------------------------
\* C27: the two places that apply the KB threshold
\* ------------------------------------------------------------------------
\* the KB tier of the request has run and its search did not fail
KbRan ==
    /\ req.pc \in {"web", "ai", "done"}
    /\ LastStage = "kb"
    /\ ~ req.fb
    /\ req.kb_result # KbError

\* the threshold the rule gives a stored record
RuleThreshold(payload) ==
    IF IsLenient(payload) THEN ValidatedThreshold ELSE RegularThreshold

\* the records that meet the threshold of the rule for the request's query
Acceptable == { id \in DOMAIN kb : ReqScore(id) >= RuleThreshold(kb[id].payload) }

\* the records that are among the top-3 hits whatever the order of ties
SureTop3 ==
    { id \in DOMAIN kb :
        Cardinality({ o \in DOMAIN kb \ {id} : ReqScore(o) >= ReqScore(id) })
          < SemanticLimit }

\* C27 as stated: the request is answered with route KB iff a record's
\* score meets the threshold of the rule
C27_KBIffThreshold ==
    KbRan => ((req.pc = "done" /\ req.response.route = "KB") <=> Acceptable # {})

\* C27, amended: kb_search_tool and agent_route apply the same threshold to
\* the record the search returns: 0.45 when the record is flagged
\* validated_by_user or has origin web/ai (for an exact match: when it is
\* flagged validated_by_user), 0.65 otherwise. Every record the search
\* returns meets it, so the request is answered with route KB iff the
\* search returns a record and the output guardrail accepts it. The search
\* returns no record although one meets the threshold only when the query
\* holds a digit and has no exact match, or the record is outside the top 3.
C27_ThresholdsAgree ==
    KbRan =>
      /\ (req.pc = "done") <=> (req.kb_result # None /\ ResponseSafe(req.kb_result))
      /\ (req.pc = "done") => req.response.route = "KB"
      /\ req.kb_result # None =>
            /\ req.kb_result.score >=
                  (IF Get(req.kb_result, "validated_by_user", FALSE)
                   THEN ValidatedThreshold ELSE RegularThreshold)
            /\ \E id \in Acceptable :
                  /\ req.kb_result.score = ReqScore(id)
                  /\ req.kb_result.answer = Get(kb[id].payload, "answer", NoneVal)
                  /\ IF req.kb_result.source = "Knowledge Base (Exact)"
                     THEN /\ id \in ExactRecords
                          /\ Get(req.kb_result, "validated_by_user", FALSE)
                               = Get(kb[id].payload, "validated_by_user", FALSE)
                     ELSE /\ ~ HasDigit(req.query)
                          /\ ExactRecords = {}
                          /\ Get(req.kb_result, "validated_by_user", FALSE)
                               = IsLenient(kb[id].payload)
      /\ (req.kb_result = None /\ Cardinality(DOMAIN kb) <= ExactLimit) =>
            /\ ExactRecords = {}
            /\ HasDigit(req.query) \/ Acceptable \cap SureTop3 = {}

\* a record stored by persist_to_kb (origin web, not flagged) at score 0.50
\* was returned by the semantic search and answered with route KB
C27_Witness ==
    /\ KbRan
    /\ req.pc = "done"
    /\ req.kb_result.source = "Knowledge Base (User Validated)"
    /\ req.kb_result.score = 50
    /\ \E id \in Acceptable :
          /\ ~ Get(kb[id].payload, "validated_by_user", FALSE)
          /\ Get(kb[id].payload, "route_origin", NoneVal) \in {"web", "ai"}

\* a record at 0.87 that the digit rule keeps from answering
C27_DigitRefused ==
    /\ KbRan
    /\ req.kb_result = None
    /\ HasDigit(req.query)
    /\ Acceptable # {}

\* ------------------------------------------------------------------------
\* SpecPick: kb_search_tool on collections of up to MaxPoints records of
\* digit-free questions
\* ------------------------------------------------------------------------
MaxPoints == 4

PickQueries == { Q_solvex, Q_solvey }

\* a record as scripts/reindex_from_json.py, persist_to_kb or
\* store_validated_response_in_kb writes it; the answer tells the writer
PickPoint(q, kind) ==
    CASE kind = "dataset" -> SeedDataset(q, "a1")
      [] kind = "web" ->
           [ vector |-> Encode(q),
             payload |-> PersistPayload("web", q, "a2", NoneVal) ]
      [] kind = "validated" ->
           store_validated_response_in_kb(<< >>, TRUE, q, "a3", "web", 0, FALSE).kb[0]

PickPoints ==
    { PickPoint(q, kind) : q \in {Q_expandy, Q_factorx}, kind \in {"dataset", "web"} }
      \cup { PickPoint(Q_solvey, kind) : kind \in {"dataset", "validated"} }
      \cup { PickPoint(Q_solvex, "dataset") }

InitPick ==
    /\ now = Epoch
    /\ cache = << >>
    /\ access_count = << >>
    /\ last_access = << >>
    /\ max_cache_size = 1000
    /\ ttl_seconds = TtlTicks
    /\ \E n \in 0..MaxPoints : kb \in [1..n -> PickPoints]
    /\ coll_exists = TRUE
    /\ workload = PickQueries
    /\ req = [pc |-> "idle"]
    /\ keyq = KeyIdle
    /\ hist = [last |-> "none"]

\* kb_search_tool(query)
PSearch ==
    /\ hist.last = "none"
    /\ \E q \in workload :
         \E r \in kb_search_tool(kb, coll_exists, q, FALSE) :
           hist' = [last |-> "search", query |-> q, result |-> r]
    /\ UNCHANGED << now, cacheVars, max_cache_size, ttl_seconds, kb, coll_exists,
                   workload, req, keyq >>

NextPick == PSearch

SpecPick == InitPick /\ [][NextPick]_vars

PickScore(id) == Score(Encode(hist.query), kb[id].vector)

\* the search ran for a digit-free query that has no stored exact match
SemanticSearched ==
    /\ hist.last = "search"
    /\ ~ HasDigit(hist.query)
    /\ \A id \in DOMAIN kb : NormOf(kb[id]) # Norm(hist.query)

\* the records that meet their own threshold
Returnable ==
    { id \in DOMAIN kb : PickScore(id) >= RuleThreshold(kb[id].payload) }

\* the records that are among the top-3 hits in some order of the ties
MayTop3 ==
    { id \in DOMAIN kb :
        Cardinality({ o \in DOMAIN kb : PickScore(o) > PickScore(id) }) < SemanticLimit }

\* the records that are among the top-3 hits in every order of the ties
MustTop3 ==
    { id \in DOMAIN kb :
        Cardinality({ o \in DOMAIN kb \ {id} : PickScore(o) >= PickScore(id) })
          < SemanticLimit }

\* C28: for a digit-free query without an exact match kb_search_tool
\* returns, of the top-3 hits that meet their own threshold, the one with
\* the highest score, with that record's question and answer and its own
\* raw score; it returns None when no top-3 hit meets its threshold
C28_BestOfTop3 ==
    SemanticSearched =>
      IF hist.result = None
      THEN Returnable \cap MustTop3 = {}
      ELSE /\ \E id \in Returnable \cap MayTop3 :
                /\ hist.result.score = PickScore(id)
                /\ hist.result.question = kb[id].payload.question
                /\ hist.result.answer = kb[id].payload.answer
                /\ Get(hist.result, "validated_by_user", FALSE)
                     = IsLenient(kb[id].payload)
           /\ \A o \in Returnable \cap MustTop3 : PickScore(o) <= hist.result.score

\* the top hit (0.97, a dataset record) is returned although two more
\* records meet their thresholds
C28_Witness ==
    /\ SemanticSearched
    /\ hist.result # None
    /\ hist.result.score = 97
    /\ hist.result.source = "Knowledge Base"
    /\ Cardinality(Returnable) >= 3

\* a web record at 0.50 is returned while a dataset record with the same
\* score is in the collection and is passed over
C28_PassedOver ==
    /\ SemanticSearched
    /\ hist.result # None
    /\ hist.result.score = 50
    /\ \E o \in DOMAIN kb : PickScore(o) = 50 /\ o \notin Returnable

\* ------------------------------------------------------------------------
\* C29: the calls of one request
\* ------------------------------------------------------------------------
\* the request ran agent_route (it is not a fresh record)
Routed == req.pc \notin {"idle"}

\* the calls a returned request has made, by the route of its answer; a
\* cache hit and a blocked request have made none
CallsOfRoute(response) ==
    LET route == IF req.hit THEN "Cache" ELSE Get(response, "route", "none")
    IN CASE route = "Web" ->
              { [web |-> 1, ai |-> 0, persist |-> 1, set |-> 1] }
         [] route = "AI" ->
              { [web |-> w, ai |-> 1, persist |-> 1, set |-> 1] : w \in {0, 1} }
         [] route = "Human" ->
              { [web |-> w, ai |-> 1, persist |-> 0, set |-> 0] : w \in {0, 1} }
         [] route = "KB" ->
              { [web |-> 0, ai |-> 0, persist |-> 0, set |-> 1] }
         [] OTHER ->
              { [web |-> 0, ai |-> 0, persist |-> 0, set |-> 0] }

\* C29: within one request the web search, the generation service,
\* persist_to_kb and the cache set are called at most once each; a tier
\* that failed is not called again, and the request that has returned made
\* exactly the calls on the way to its route: nothing after the web answer
\* but its persist and set, no persist or set without an answer
C29_SingleCalls ==
    Routed =>
      /\ \A c \in DOMAIN req.calls : req.calls[c] <= 1
      /\ req.calls.persist = req.calls.set \/ (req.calls.persist = 0 /\ req.calls.set = 1)
      /\ req.pc = "done" => req.calls \in CallsOfRoute(req.response)
      /\ req.pc = "ai" => req.calls.ai = 0
      /\ req.pc = "web" => req.calls.web = 0
      /\ req.pc = "human" => (req.calls.ai = 1 /\ req.calls.set = 0)

\* the web search failed, the generation answered: one call of each, one
\* persist, one set
C29_Witness ==
    /\ req.pc = "done"
    /\ req.response.route = "AI"
    /\ req.calls = [web |-> 1, ai |-> 1, persist |-> 1, set |-> 1]

\* ------------------------------------------------------------------------
\* C30: what leaves agent_route has passed the output guardrail
\* ------------------------------------------------------------------------
\* the request has returned an answer of a tier
TierAnswered ==
    /\ req.pc = "done"
    /\ req.status = 200
    /\ Get(req.response, "route", "none") \in {"KB", "Web", "AI"}

\* the payload the guardrail was given last in this request
LastCheck == req.checks[Len(req.checks)]

\* the tiers the request has been through
TiersRun == { i \in 1..Len(req.trace) : req.trace[i] \in {"kb", "web", "ai"} }

\* the records of the collection that hold the query with the answer and
\* steps of a payload
StoredFrom(payload) ==
    { id \in DOMAIN kb :
        /\ Get(kb[id].payload, "question", NoneStr) = req.query
        /\ Get(kb[id].payload, "answer", NoneVal) = Get(payload, "answer", NoneVal)
        /\ Get(kb[id].payload, "steps", NoneVal) = Get(payload, "steps", NoneVal) }

\* C30 as stated: a result returned with route KB, Web or AI passed the
\* output guardrail in the same request and is its filtered payload
C30_ReturnedWasChecked ==
    TierAnswered =>
      /\ req.checks # << >>
      /\ ResponseSafe(LastCheck)
      /\ req.response.result = filter_response(LastCheck)

\* C30, amended: a request that is not a cache hit returns, caches and
\* persists only the filtered payload of a result the output guardrail
\* accepted in this request; a rejected payload is neither cached nor
\* persisted, the guardrail sees each tier's payload at most once and the
\* request goes on to the next tier. A cache hit returns the stored payload
\* without running the guardrail; the payload passed it when it was cached.
C30_GuardedOutputs ==
    Routed =>
      /\ Len(req.checks) <= Cardinality(TiersRun)
      /\ \A i \in 1..Len(req.checks) :
            ResponseSafe(req.checks[i]) => (i = Len(req.checks) /\ req.pc = "done")
      /\ (TierAnswered /\ ~ req.hit) =>
            /\ req.checks # << >>
            /\ ResponseSafe(LastCheck)
            /\ req.response.result = filter_response(LastCheck)
            /\ req.calls.set = 1
            /\ cache[CacheKey(req.query)].result = filter_response(LastCheck)
            /\ (req.persisted = "yes" /\ ~ req.fb) =>
                  StoredFrom(filter_response(LastCheck)) # {}
      /\ (req.checks = << >> \/ ~ ResponseSafe(LastCheck)) =>
            /\ req.calls.set = 0
            /\ req.calls.persist = 0
            /\ req.persisted = "none"
            /\ req.hit \/ ~ TierAnswered
      /\ (req.pc = "done" /\ req.hit) =>
            /\ req.checks = << >>
            /\ ResponseSafe(req.response.result)

\* the guardrail rejected the web answer, accepted the generated one, and
\* the request returned, cached and persisted the filtered AI payload
C30_Witness ==
    /\ TierAnswered
    /\ ~ req.hit
    /\ req.response.route = "AI"
    /\ Len(req.checks) = 2
    /\ ~ ResponseSafe(req.checks[1])
    /\ req.persisted = "yes"
    /\ ~ req.fb
    /\ StoredFrom(req.response.result) # {}
    /\ cache[CacheKey(req.query)].result = req.response.result
    /\ req.response.result # LastCheck

\* a cache hit returned with route KB: no guardrail ran in the request
C30_HitUnchecked ==
    /\ TierAnswered
    /\ req.hit
    /\ req.response.route = "KB"
    /\ req.checks = << >>

\* ------------------------------------------------------------------------
\* C31: the input guardrail and the cache fingerprint
\* ------------------------------------------------------------------------
\* the input guardrail rejects the query whatever the classifier says
AlwaysRejected(query) == VerdictTable[query] = {FALSE}

\* the request has returned an answer payload
GotAnswer ==
    /\ req.pc = "done"
    /\ req.status = 200
    /\ "result" \in DOMAIN req.response

\* C31: a query that the input guardrail rejects never receives an answer
\* payload, also when a query with the same cache fingerprint was answered
\* and cached before
C31_RejectedNeverAnswered ==
    (req.pc = "done" /\ AlwaysRejected(req.query)) =>
        /\ ~ GotAnswer
        /\ req.status = 400
        /\ req.response.route = "blocked"

\* a rejected query is answered only from the cache, by an entry that was
\* written for another query text with the same fingerprint, which the
\* guardrail let through; a rejected query that misses the cache is blocked
C31_AnsweredOnlyFromCache ==
    (req.pc = "done" /\ AlwaysRejected(req.query)) =>
        IF req.hit
        THEN /\ GotAnswer
             /\ req.valid = "none"
             /\ req.entry_query # req.query
             /\ CacheKey(req.entry_query) = CacheKey(req.query)
             /\ TRUE \in VerdictTable[req.entry_query]
        ELSE /\ req.status = 400
             /\ req.response.route = "blocked"
             /\ req.valid = "no"

\* "calculate" was served the answer cached for "solve"
C31_CalculateServed ==
    /\ req.pc = "done"
    /\ req.query = Q_calculate
    /\ req.hit
    /\ req.entry_query = Q_solve
    /\ GotAnswer

\* ------------------------------------------------------------------------
\* C32: the validated flag of a stored record
\* ------------------------------------------------------------------------
IsValidatedRecord(pts, id) ==
    id \in DOMAIN pts /\ Get(pts[id].payload, "validated_by_user", FALSE)

\* C32: once a record has validated_by_user = true, no step of agent_route
\* or persist_to_kb sets the flag back or replaces the payload with an
\* unvalidated one
C32_ValidationMonotonic ==
    [][\A id \in DOMAIN kb : IsValidatedRecord(kb, id) => IsValidatedRecord(kb', id)]_vars

\* a validated record loses its flag only to the persist_to_kb of a Web or
\* AI answer whose question is a near-duplicate (score >= 0.95) of the
\* record; the point then holds that question with validated_by_user false
C32_LostOnlyToNearDuplicate ==
    [][\A id \in DOMAIN kb :
         (IsValidatedRecord(kb, id) /\ ~ IsValidatedRecord(kb', id)) =>
            /\ req.pc \in {"web", "ai"}
            /\ req'.persisted = "yes"
            /\ Score(Encode(req.query), kb[id].vector) >= DedupThreshold
            /\ id \in DOMAIN kb'
            /\ kb'[id].payload.question = req.query
            /\ kb'[id].payload.route_origin = req.pc]_vars

\* the point that feedback wrote (its id is the feedback's timestamp id)
\* now holds the question of the request, unvalidated
C32_FlagLost ==
    /\ req.pc = "done"
    /\ req.persisted = "yes"
    /\ \E id \in DOMAIN kb :
          /\ id >= 1000 * Epoch
          /\ ~ IsValidatedRecord(kb, id)
          /\ kb[id].payload.question = req.query

\* ------------------------------------------------------------------------
\* C33: the id of a new record
\* ------------------------------------------------------------------------
\* persist_to_kb stored a question that had no exact and no near-duplicate
\* match in the collection
StoredUnmatched ==
    /\ hist.last = "persist"
    /\ hist.ok
    /\ \A id \in DOMAIN hist.pre :
          /\ NormOf(hist.pre[id]) # Norm(hist.query)
          /\ Score(Encode(hist.query), hist.pre[id].vector) < DedupThreshold

\* C33: a record written for a question without a match gets an id no
\* stored record has, so every stored record is left as it was, also when
\* two writes fall into one clock millisecond
C33_FreshIdUnique ==
    StoredUnmatched =>
      /\ DOMAIN kb \ DOMAIN hist.pre # {}
      /\ \A id \in DOMAIN hist.pre : kb[id] = hist.pre[id]

\* the id of an unmatched record is the millisecond reading of the clock:
\* the write adds a point unless a record is stored under that reading, and
\* then replaces it
C33_IdIsTimestamp ==
    StoredUnmatched =>
      /\ DOMAIN kb = DOMAIN hist.pre \cup {hist.at}
      /\ kb[hist.at].payload.question = hist.query
      /\ kb[hist.at].payload.answer = hist.answer
      /\ \A id \in DOMAIN hist.pre \ {hist.at} : kb[id] = hist.pre[id]

\* the record of an unrelated question, written in the same millisecond,
\* was overwritten
C33_Overwritten ==
    /\ StoredUnmatched
    /\ hist.at \in DOMAIN hist.pre
    /\ hist.pre[hist.at].payload.question # hist.query
    /\ kb[hist.at].payload.question = hist.query
    /\ Cardinality(DOMAIN kb) = Cardinality(DOMAIN hist.pre)

\* ------------------------------------------------------------------------
\* SpecInterleave: math_cache.get of one request and math_cache.set of
\* another run in two threads on a full cache; a thread can be preempted
\* between any two statements of MathCacheManager
\* ------------------------------------------------------------------------
InitInterleave ==
    /\ max_cache_size = SmallCap
    /\ \E pattern \in {"asc", "desc", "pairs"} :
           /\ cache = FilledCache(max_cache_size, pattern).cache
           /\ access_count = FilledCache(max_cache_size, pattern).access_count
           /\ last_access = FilledCache(max_cache_size, pattern).last_access
    /\ now = max_cache_size + 1
    /\ ttl_seconds = max_cache_size + 1
    /\ kb = <<>>
    /\ coll_exists = TRUE
    /\ workload = {}
    /\ \E qg \in {QAt(0), QAt(max_cache_size - 1)},
          qs \in {QAt(0), QAt(max_cache_size)} :
         req = [ g |-> [pc |-> "check", query |-> qg, cached_time |-> 0],
                 s |-> [pc |-> "full", query |-> qs, victims |-> {}] ]
    /\ keyq = KeyIdle
    /\ hist = [t0 |-> now]

otherInterleave == << max_cache_size, ttl_seconds, kb, coll_exists, workload, hist, keyq >>

\* get: if cache_key not in self.cache: return None
GCheck ==
    /\ req.g.pc = "check"
    /\ req' = [req EXCEPT !.g.pc = IF CacheKey(req.g.query) \in DOMAIN cache
                                   THEN "read" ELSE "done"]
    /\ UNCHANGED << now, cacheVars, otherInterleave >>

\* get: cached_data = self.cache[cache_key], which raises KeyError when
\* the key is gone
GRead ==
    /\ req.g.pc = "read"
    /\ req' = IF CacheKey(req.g.query) \in DOMAIN cache
              THEN [req EXCEPT !.g.pc = "ttl",
                               !.g.cached_time = cache[CacheKey(req.g.query)].timestamp]
              ELSE [req EXCEPT !.g.pc = "raised"]
    /\ UNCHANGED << now, cacheVars, otherInterleave >>

\* get: the TTL test, and _remove_cache_entry for an expired entry
GTtl ==
    /\ req.g.pc = "ttl"
    /\ IF now - req.g.cached_time > ttl_seconds
       THEN /\ cache' = remove_cache_entry(CM, CacheKey(req.g.query)).cache
            /\ access_count' = remove_cache_entry(CM, CacheKey(req.g.query)).access_count
            /\ last_access' = remove_cache_entry(CM, CacheKey(req.g.query)).last_access
            /\ req' = [req EXCEPT !.g.pc = "done"]
       ELSE /\ req' = [req EXCEPT !.g.pc = "count"]
            /\ UNCHANGED cacheVars
    /\ UNCHANGED << now, otherInterleave >>

\* get: self.access_count[cache_key] = self.access_count.get(cache_key, 0) + 1
GCount ==
    /\ req.g.pc = "count"
    /\ access_count' = Put(access_count, CacheKey(req.g.query),
                           Get(access_count, CacheKey(req.g.query), 0) + 1)
    /\ req' = [req EXCEPT !.g.pc = "touch"]
    /\ UNCHANGED << now, cache, last_access, otherInterleave >>

\* get: self.last_access[cache_key] = time.time(), and the return
GTouch ==
    /\ req.g.pc = "touch"
    /\ last_access' = Put(last_access, CacheKey(req.g.query), now)
    /\ req' = [req EXCEPT !.g.pc = "done"]
    /\ UNCHANGED << now, cache, access_count, otherInterleave >>

\* set: the capacity test, and the sorted keys of _evict_lru_entries
SFull ==
    /\ req.s.pc = "full"
    /\ IF Cardinality(DOMAIN cache) >= max_cache_size
       THEN \E E \in EvictSets(CM) :
              req' = [req EXCEPT !.s.pc = "evict", !.s.victims = E]
       ELSE req' = [req EXCEPT !.s.pc = "insert"]
    /\ UNCHANGED << now, cacheVars, otherInterleave >>

\* _evict_lru_entries: _remove_cache_entry for the oldest keys
SEvict ==
    /\ req.s.pc = "evict"
    /\ cache' = RemoveAll(CM, req.s.victims).cache
    /\ access_count' = RemoveAll(CM, req.s.victims).access_count
    /\ last_access' = RemoveAll(CM, req.s.victims).last_access
    /\ req' = [req EXCEPT !.s.pc = "insert"]
    /\ UNCHANGED << now, otherInterleave >>

\* set: self.cache[cache_key] = cached_data
SInsert ==
    /\ req.s.pc = "insert"
    /\ cache' = Put(cache, CacheKey(req.s.query),
                    [ result |-> Payload("a2", "OpenAI GPT"), route |-> "AI",
                      timestamp |-> now, query |-> req.s.query ])
    /\ req' = [req EXCEPT !.s.pc = "count"]
    /\ UNCHANGED << now, access_count, last_access, otherInterleave >>

\* set: self.access_count[cache_key] = 1
SCount ==
    /\ req.s.pc = "count"
    /\ access_count' = Put(access_count, CacheKey(req.s.query), 1)
    /\ req' = [req EXCEPT !.s.pc = "touch"]
    /\ UNCHANGED << now, cache, last_access, otherInterleave >>

\* set: self.last_access[cache_key] = time.time()
STouch ==
    /\ req.s.pc = "touch"
    /\ last_access' = Put(last_access, CacheKey(req.s.query), now)
    /\ req' = [req EXCEPT !.s.pc = "done"]
    /\ UNCHANGED << now, cache, access_count, otherInterleave >>

\* the clock moves on while the two calls run
ITick ==
    /\ req.g.pc \notin {"done", "raised"} \/ req.s.pc # "done"
    /\ now < hist.t0 + MaxTime
    /\ now' = now + 1
    /\ UNCHANGED << cacheVars, req, otherInterleave >>

NextInterleave ==
    \/ GCheck \/ GRead \/ GTtl \/ GCount \/ GTouch
    \/ SFull \/ SEvict \/ SInsert \/ SCount \/ STouch
    \/ ITick

SpecInterleave == InitInterleave /\ [][NextInterleave]_vars

\* both calls have ended
BothEnded == req.g.pc \in {"done", "raised"} /\ req.s.pc = "done"

\* get_cache_stats reads self.cache[k] for every k of access_count
StatsRaises == DOMAIN access_count \ DOMAIN cache # {}

SameKeySets ==
    /\ DOMAIN cache = DOMAIN access_count
    /\ DOMAIN access_count = DOMAIN last_access

\* C34: when a get and a set have run interleaved, the three maps have the
\* same key set, get has not read a key that was evicted under it, and
\* get_cache_stats finds every access_count key in cache
C34_SameKeysAfterRace ==
    BothEnded =>
      /\ SameKeySets
      /\ req.g.pc # "raised"
      /\ ~ StatsRaises

\* get found the key, the set evicted it, and get went on to count the
\* access: access_count and last_access hold a key that cache lacks
C34_Resurrected ==
    /\ BothEnded
    /\ req.g.pc = "done"
    /\ StatsRaises
    /\ CacheKey(req.g.query) \in DOMAIN last_access \ DOMAIN cache

\* get found the key, the set evicted it, and get's read of the entry
\* raised KeyError
C34_GetRaised == req.g.pc = "raised"

\* between calls that run one after the other the key sets are equal
C34_SameKeysSequential == SameKeySets

\* ------------------------------------------------------------------------
\* C35: the TTL runs from the set
\* ------------------------------------------------------------------------
\* the call that just returned was a get or a get_route_info
ReadCall == hist.last \in {"get", "route"}

\* the entry the call looked at, as it was before the call
ReadEntry == hist.pre.cache[hist.key]

\* C35: a hit of get or get_route_info leaves the entry's timestamp, result
\* and route as they were; an entry written at t is served only while
\* now - t <= ttl, however often it was read; get_route_info changes no
\* map, also for an expired entry; the timestamp of a key changes only by
\* a set for that key
C35_AbsoluteTTL ==
    /\ []((ReadCall /\ hist.key \in DOMAIN hist.pre.cache) =>
            /\ (hist.at - ReadEntry.timestamp > ttl_seconds) =>
                  hist.returned = (IF hist.last = "get" THEN None ELSE "None")
            /\ (hist.at - ReadEntry.timestamp <= ttl_seconds) =>
                  /\ hist.returned = (IF hist.last = "get" THEN ReadEntry.result
                                      ELSE ReadEntry.route)
                  /\ hist.key \in DOMAIN cache
                  /\ cache[hist.key] = ReadEntry)
    /\ [][hist'.last = "route" /\ hist' # hist => UNCHANGED cacheVars]_vars
    /\ [][\A k \in DOMAIN cache \cap DOMAIN cache' :
             cache'[k].timestamp # cache[k].timestamp =>
                (hist'.last = "set" /\ hist'.key = k /\ cache'[k].timestamp = now)]_vars

\* an entry that was read before is refused once it is older than the TTL
C35_Witness ==
    /\ hist.last = "get"
    /\ hist.key \in DOMAIN hist.pre.cache
    /\ hist.pre.access_count[hist.key] > 1
    /\ hist.at - ReadEntry.timestamp > ttl_seconds
    /\ hist.returned = None
    /\ hist.key \notin DOMAIN cache

\* get_route_info met an expired entry and left it in the cache
C35_RouteLeavesExpired ==
    /\ hist.last = "route"
    /\ hist.key \in DOMAIN hist.pre.cache
    /\ hist.at - ReadEntry.timestamp > ttl_seconds
    /\ hist.returned = "None"
    /\ hist.key \in DOMAIN cache

\* ------------------------------------------------------------------------
\* C36: set, then get
\* ------------------------------------------------------------------------
\* the times at which the entry the set wrote is still within its TTL
WithinTTL == { t \in hist.at .. hist.at + MaxTime : t - hist.at <= ttl_seconds }

\* C36: right after set(q, r, route) the entry for q exists in the three
\* maps with access_count 1, a get(q) at any time within the TTL would
\* return r and a get_route_info(q) would return route; the get or
\* get_route_info of q that follows the set returns r or route
C36_SetThenGet ==
    /\ [](hist.last = "set" =>
            /\ hist.key \in DOMAIN cache
            /\ hist.key \in DOMAIN access_count
            /\ hist.key \in DOMAIN last_access
            /\ access_count[hist.key] = 1
            /\ \A t \in WithinTTL :
                  /\ CacheGetResult(CM, ttl_seconds, hist.query, t) = hist.result
                  /\ get_route_info(CM, ttl_seconds, hist.query, t) = hist.route)
    /\ [][(hist.last = "set" /\ hist'.last \in {"get", "route"}
            /\ hist'.key = hist.key /\ now' - hist.at <= ttl_seconds) =>
              hist'.returned = (IF hist'.last = "get" THEN hist.result
                                ELSE hist.route)]_vars

\* the set met a full cache that held q, evicted q and put it back
C36_Witness ==
    /\ hist.last = "set"
    /\ Cardinality(hist.pre_keys) >= max_cache_size
    /\ hist.key \in hist.pre_keys
    /\ hist.key \notin hist.mid_keys
    /\ hist.key \in DOMAIN cache
    /\ cache[hist.key].result = hist.result
    /\ access_count[hist.key] = 1

\* a get read back what the set before it had written
C36_ReadBack ==
    /\ hist.last = "get"
    /\ hist.key \in DOMAIN hist.pre.cache
    /\ hist.pre.cache[hist.key].timestamp = hist.at
    /\ hist.returned = hist.pre.cache[hist.key].result
    /\ hist.returned.source = "OpenAI GPT"

\* ------------------------------------------------------------------------
\* C37: the tiers of /ask
\* ------------------------------------------------------------------------
\* the request to /ask that just returned
Asked == hist.last = "ask"

\* the generation call of this request failed or raised
AiFailed == hist.ai \in {"failed", "raised"}

\* C37: in /ask a failed KB search is not answered with source KB but goes
\* on to the web search, a failed generation call is not answered with
\* source AI nor persisted but goes on to the human tier, and the request
\* ends with source HUMAN whenever KB, web and AI all failed
C37_AskDegrades ==
    /\ (Asked /\ hist.kb_failed) => (hist.source # "KB" /\ hist.web # "not called")
    /\ (Asked /\ AiFailed) => (hist.source = "HUMAN" /\ ~ hist.stored)
    /\ (Asked /\ hist.kb_failed /\ hist.web = "failed" /\ AiFailed) =>
          (hist.source = "HUMAN")

\* what the code does instead: a failed KB search ends the request with
\* source KB before any other tier is called; the message payload of a
\* failed generation is answered with source AI; the human tier is reached
\* only when the KB search did not fail, the web search failed and
\* openai_solve_tool itself raised
C37_FailuresAnswered ==
    /\ (Asked /\ hist.kb_failed) =>
          (hist.source = "KB" /\ hist.web = "not called" /\ hist.ai = "not called")
    /\ (Asked /\ hist.ai = "failed") =>
          (hist.source = "AI" /\ hist.answer = [text |-> "str(ai_result)"])
    /\ (Asked /\ hist.source = "HUMAN") =>
          (~ hist.kb_failed /\ hist.web = "failed" /\ hist.ai = "raised")

\* the message of a failed generation was returned as the AI answer and
\* stored in the collection
C37_FailureStored ==
    /\ Asked
    /\ hist.ai = "failed"
    /\ hist.source = "AI"
    /\ hist.stored
    /\ \E id \in DOMAIN kb :
          /\ kb[id].payload.question = hist.query
          /\ kb[id].payload.answer = "str(ai_result)"

\* ------------------------------------------------------------------------
\* SpecGraph: MathRoutingAgent.process_query, the graph-based router, one
\* query after another; req is the AgentState on its way through the graph
\* ------------------------------------------------------------------------
GraphKbThreshold == 80

GraphQueries == { Q_WhatIs33, Q_Compute22, Q_calculate, Q_invent }

RejectMessage == "focus only on educational mathematics"

UnsafeMessage == "Safety policy violation in response"

\* mcp_client.search(query): the server's error, or its result
McpSearchOutcomes ==
    { [ error |-> "search failed" ] }
    \cup { [ answer |-> a, summary |-> "summary" ] : a \in {"a1", UnsafeAnswer} }

\* KnowledgeBaseTool._run: kb_search_tool's result, or an error payload
\* when there is none
KnowledgeBaseTool(result) ==
    IF Truthy(result) THEN result ELSE [ error |-> "No KB match found" ]

\* `result and "error" not in result and result.get("answer")`
HasAnswer(result) ==
    /\ Truthy(result)
    /\ "error" \notin DOMAIN result
    /\ "answer" \in DOMAIN result

should_continue_from_kb(state) ==
    IF Truthy(state.result) /\ state.confidence = "high"
    THEN "output_validation" ELSE "web_search"

should_continue_from_web(state) ==
    IF Truthy(state.result) /\ state.confidence = "medium"
    THEN "output_validation" ELSE "ai_generation"

should_continue_from_ai(state) ==
    IF Truthy(state.result) /\ state.confidence = "medium"
    THEN "output_validation" ELSE "human_feedback"

otherGraph ==
    << now, cacheVars, max_cache_size, ttl_seconds, kb, coll_exists, workload, keyq >>

InitGraph ==
    /\ now = Epoch
    /\ cache = <<>>
    /\ access_count = <<>>
    /\ last_access = <<>>
    /\ max_cache_size = 1000
    /\ ttl_seconds = 24 * 3600
    /\ kb \in { <<>>, [i \in {1} |-> SeedDataset(Q_WhatIs33, "a1")],
                 [i \in {1} |-> SeedDataset(Q_WhatIs33, UnsafeAnswer)] }
    /\ coll_exists = TRUE
    /\ workload = GraphQueries
    /\ req = [pc |-> "idle"]
    /\ keyq = KeyIdle
    /\ hist = [n |-> 0]

\* process_query(query): the initial AgentState enters the graph at its
\* entry point
process_query ==
    /\ req.pc \in {"idle", "returned"}
    /\ hist.n < MaxReq
    /\ \E q \in workload :
         req' = [ pc |-> "input_validation", query |-> q, route |-> "",
                  result |-> None, confidence |-> "", error |-> NoneVal,
                  attempts |-> << >>, rejected |-> FALSE ]
    /\ UNCHANGED << hist, otherGraph >>

\* node input_validation (MathRoutingAgent.validate_input) and its edge
input_validation ==
    /\ req.pc = "input_validation"
    /\ \E is_valid \in VerdictTable[req.query] :
         req' = IF ~ is_valid
                THEN [req EXCEPT !.error = RejectMessage, !.route = "error",
                                 !.rejected = TRUE, !.pc = "kb_search"]
                ELSE [req EXCEPT !.attempts = << >>, !.pc = "kb_search"]
    /\ UNCHANGED << hist, otherGraph >>

\* node kb_search and its conditional edge
search_knowledge_base ==
    /\ req.pc = "kb_search"
    /\ \E raises \in BOOLEAN :
         \E found \in kb_search_tool(kb, coll_exists, req.query, raises) :
           LET result == KnowledgeBaseTool(found)
               tried == Append(req.attempts, "kb_search")
               state == IF "error" \notin DOMAIN result
                           /\ Get(result, "score", 0) >= GraphKbThreshold
                        THEN [req EXCEPT !.attempts = tried, !.route = "KB",
                                         !.result = result, !.confidence = "high"]
                        ELSE [req EXCEPT !.attempts = tried, !.result = None]
           IN req' = [state EXCEPT !.pc = should_continue_from_kb(state)]
    /\ UNCHANGED << hist, otherGraph >>

\* node web_search and its conditional edge
search_web ==
    /\ req.pc = "web_search"
    /\ \E result \in McpSearchOutcomes :
           LET tried == Append(req.attempts, "web_search")
               state == IF HasAnswer(result)
                        THEN [req EXCEPT !.attempts = tried, !.route = "Web",
                                         !.result = result, !.confidence = "medium"]
                        ELSE [req EXCEPT !.attempts = tried, !.result = None]
           IN req' = [state EXCEPT !.pc = should_continue_from_web(state)]
    /\ UNCHANGED << hist, otherGraph >>

\* node ai_generation and its conditional edge
generate_ai_solution ==
    /\ req.pc = "ai_generation"
    /\ \E result \in AIOutcomes :
           LET tried == Append(req.attempts, "ai_generation")
               state == IF HasAnswer(result)
                        THEN [req EXCEPT !.attempts = tried, !.route = "AI",
                                         !.result = result, !.confidence = "medium"]
                        ELSE [req EXCEPT !.attempts = tried, !.result = None]
           IN req' = [state EXCEPT !.pc = should_continue_from_ai(state)]
    /\ UNCHANGED << hist, otherGraph >>

\* node human_feedback and its edge
request_human_feedback ==
    /\ req.pc = "human_feedback"
    /\ req' = [req EXCEPT !.attempts = Append(req.attempts, "human_feedback"),
                          !.route = "Human",
                          !.result = require_human_feedback(req.query),
                          !.confidence = "low",
                          !.pc = "output_validation"]
    /\ UNCHANGED << hist, otherGraph >>

\* node output_validation (MathRoutingAgent.validate_output) and its edge
\* to END
output_validation ==
    /\ req.pc = "output_validation"
    /\ req' = IF ~ Truthy(req.result) THEN [req EXCEPT !.pc = "END"]
              ELSE IF validate_output(req.result).is_valid
              THEN [req EXCEPT !.result = validate_output(req.result).filtered,
                               !.pc = "END"]
              ELSE [req EXCEPT !.error = UnsafeMessage, !.route = "error",
                               !.pc = "END"]
    /\ UNCHANGED << hist, otherGraph >>

\* process_query returns the fields of the final state
process_query_return ==
    /\ req.pc = "END"
    /\ req' = [req EXCEPT !.pc = "returned"]
    /\ hist' = [n |-> hist.n + 1]
    /\ UNCHANGED otherGraph

NextGraph ==
    \/ process_query
    \/ input_validation
    \/ search_knowledge_base
    \/ search_web
    \/ generate_ai_solution
    \/ request_human_feedback
    \/ output_validation
    \/ process_query_return

SpecGraph == InitGraph /\ [][NextGraph]_vars

\* process_query returned for a query the input guardrail rejected
RejectedReturned == req.pc = "returned" /\ req.rejected

TierNodes == { "kb_search", "web_search", "ai_generation", "human_feedback" }

\* C38: a query rejected in input_validation ends with route "error" and
\* the guardrail message as error; no tier node runs for it and no result
\* is returned
C38_RejectedEndsAsError ==
    /\ (req.pc \in TierNodes) => ~ req.rejected
    /\ RejectedReturned =>
          /\ req.route = "error"
          /\ req.error = RejectMessage
          /\ req.attempts = << >>
          /\ ~ Truthy(req.result)

\* what the code does instead: the rejected query takes the edge to
\* kb_search like an accepted one, a tier answers it, and it returns with a
\* result and the route of that tier (or the output guardrail's error)
C38_RejectedRunsTiers ==
    RejectedReturned =>
        /\ Len(req.attempts) >= 1
        /\ req.attempts[1] = "kb_search"
        /\ Truthy(req.result)
        /\ \/ req.route \in {"KB", "Web", "AI", "Human"} /\ req.error = RejectMessage
           \/ req.route = "error" /\ req.error = UnsafeMessage

\* a rejected query went through the four tiers and came back with route
\* Human
C38_RejectedToHuman ==
    /\ RejectedReturned
    /\ req.attempts = << "kb_search", "web_search", "ai_generation", "human_feedback" >>
    /\ req.route = "Human"
    /\ req.error = RejectMessage

\* a rejected query was answered from the knowledge base
C38_RejectedAnswered ==
    /\ RejectedReturned
    /\ req.route = "KB"
    /\ "answer" \in DOMAIN req.result

\* ------------------------------------------------------------------------
\* SpecAnalytics: the PerformanceAnalytics counters under agent_route
\* requests that the server runs in separate threads. hist holds the
\* object's fields, req the position of every request and the number of
\* log_request_end calls made for it.
\* ------------------------------------------------------------------------
MaxHistory == 2

\* the requests of a behaviour: one more than the buffer holds
Requests == 1 .. MaxHistory + 1

\* the returns of agent_route that call log_request_end, by logged route
LoggedReturns == { "Cache", "Blocked", "KB", "Web", "AI" }

otherAnalytics ==
    << now, cacheVars, max_cache_size, ttl_seconds, kb, coll_exists, workload, keyq >>

InitAnalytics ==
    /\ now = Epoch
    /\ cache = <<>>
    /\ access_count = <<>>
    /\ last_access = <<>>
    /\ max_cache_size = 1000
    /\ ttl_seconds = 24 * 3600
    /\ kb = <<>>
    /\ coll_exists = TRUE
    /\ workload = {}
    /\ keyq = KeyIdle
    /\ req = [r \in Requests |-> [pc |-> "idle", local |-> 0, ends |-> 0]]
    /\ hist = [concurrent_requests |-> 0, peak_concurrent |-> 0,
               request_history |-> << >>]

\* deque(maxlen=max_history).append
DequeAppend(q, x) ==
    IF Len(q) >= MaxHistory THEN Append(Tail(q), x) ELSE Append(q, x)

\* request_data.update(route=...) on the entry with the tracking id, if the
\* buffer still holds it
UpdateEntry(q, id, route) ==
    [i \in DOMAIN q |-> IF q[i].tracking_id = id
                        THEN [q[i] EXCEPT !.route = route] ELSE q[i]]

\* log_request_start: the entry is appended and concurrent_requests read.
\* Requests are numbered in the order of their log_request_start calls.
AStart(r) ==
    /\ req[r].pc = "idle"
    /\ \A earlier \in 1 .. r - 1 : req[earlier].pc # "idle"
    /\ hist' = [hist EXCEPT !.request_history =
                    DequeAppend(@, [tracking_id |-> r, route |-> NoneVal])]
    /\ req' = [req EXCEPT ![r] = [pc |-> "inc", local |-> hist.concurrent_requests,
                                  ends |-> 0]]
    /\ UNCHANGED otherAnalytics

\* log_request_start: self.concurrent_requests += 1, the store
AInc(r) ==
    /\ req[r].pc = "inc"
    /\ hist' = [hist EXCEPT !.concurrent_requests = req[r].local + 1]
    /\ req' = [req EXCEPT ![r].pc = "peak", ![r].local = 0]
    /\ UNCHANGED otherAnalytics

\* log_request_start: max(self.peak_concurrent, self.concurrent_requests)
APeakRead(r) ==
    /\ req[r].pc = "peak"
    /\ req' = [req EXCEPT ![r].pc = "peak_store",
                          ![r].local = Max2(hist.peak_concurrent,
                                            hist.concurrent_requests)]
    /\ UNCHANGED << hist, otherAnalytics >>

\* log_request_start: self.peak_concurrent = ..., and the return
APeakStore(r) ==
    /\ req[r].pc = "peak_store"
    /\ hist' = [hist EXCEPT !.peak_concurrent = req[r].local]
    /\ req' = [req EXCEPT ![r].pc = "running", ![r].local = 0]
    /\ UNCHANGED otherAnalytics

\* a return of agent_route with log_request_end: the entry is updated and
\* concurrent_requests read
AEnd(r) ==
    /\ req[r].pc = "running"
    /\ \E route \in LoggedReturns :
         /\ hist' = [hist EXCEPT !.request_history = UpdateEntry(@, r, route)]
         /\ req' = [req EXCEPT ![r] = [pc |-> "dec",
                                       local |-> hist.concurrent_requests,
                                       ends |-> 1]]
    /\ UNCHANGED otherAnalytics

\* log_request_end: self.concurrent_requests = max(0, ... - 1), the store,
\* and the return of agent_route
ADec(r) ==
    /\ req[r].pc = "dec"
    /\ hist' = [hist EXCEPT !.concurrent_requests = Max2(0, req[r].local - 1)]
    /\ req' = [req EXCEPT ![r].pc = "returned", ![r].local = 0]
    /\ UNCHANGED otherAnalytics

\* the Human return of agent_route: no call of log_request_end
AHuman(r) ==
    /\ req[r].pc = "running"
    /\ req' = [req EXCEPT ![r].pc = "returned"]
    /\ UNCHANGED << hist, otherAnalytics >>

NextAnalytics ==
    \E r \in Requests :
        AStart(r) \/ AInc(r) \/ APeakRead(r) \/ APeakStore(r)
        \/ AEnd(r) \/ ADec(r) \/ AHuman(r)

SpecAnalytics == InitAnalytics /\ [][NextAnalytics]_vars

\* the requests that have started and not yet returned
InFlight == { r \in Requests : req[r].pc \notin {"idle", "returned"} }

\* no request is inside log_request_start or log_request_end
BetweenCalls == \A r \in Requests : req[r].pc \in {"idle", "running", "returned"}

AllReturned == \A r \in Requests : req[r].pc = "returned"

\* C39: concurrent_requests is the number of requests that have started
\* and not yet returned, is never negative, never exceeds peak_concurrent
\* and is 0 when every request has returned, whatever the routes; the
\* request_history buffer holds at most max_history traces
C39_CounterIsInFlight ==
    /\ BetweenCalls => hist.concurrent_requests = Cardinality(InFlight)
    /\ hist.concurrent_requests >= 0
    /\ BetweenCalls => hist.concurrent_requests <= hist.peak_concurrent
    /\ AllReturned => hist.concurrent_requests = 0
    /\ Len(hist.request_history) <= MaxHistory

\* the parts of C39 that hold: the counter is never negative and never
\* above the number of requests, and the buffer is bounded
C39_Bounded ==
    /\ hist.concurrent_requests \in 0 .. Cardinality(Requests)
    /\ hist.peak_concurrent \in 0 .. Cardinality(Requests)
    /\ Len(hist.request_history) <= MaxHistory

\* every request has returned, one of them by the Human return, and the
\* counter still counts it
C39_HumanLeak ==
    /\ AllReturned
    /\ Cardinality({ r \in Requests : req[r].ends = 0 }) = 1
    /\ hist.concurrent_requests = 1
    /\ hist.peak_concurrent = 1

\* every request has returned through log_request_end and the counter is
\* not back at 0: an update of one thread was lost to another
C39_LostUpdate ==
    /\ AllReturned
    /\ \A r \in Requests : req[r].ends = 1
    /\ hist.concurrent_requests > 0

\* the counter stands above the recorded peak
C39_AbovePeak ==
    /\ BetweenCalls
    /\ hist.concurrent_requests > hist.peak_concurrent

\* the buffer was full and dropped its oldest trace
C39_Dropped ==
    /\ Len(hist.request_history) = MaxHistory
    /\ \E r \in Requests :
          /\ req[r].pc # "idle"
          /\ \A i \in DOMAIN hist.request_history :
                hist.request_history[i].tracking_id # r

====
